---- MODULE Spec2Model ----
(***************************************************************************)
(* Backfill/ingestion engine of the price fetcher: the backfill queue and  *)
(* its state machine (BackfillOrchestrator), the per-task pipeline         *)
(* (SymbolProcessor.process), the rate limiter's waits and the batch CLI's *)
(* exit code.  One orchestrator process runs at a time; the store (assets, *)
(* backfill_queue, asset_prices) outlives the runs.                        *)
(***************************************************************************)
EXTENDS Integers, Sequences, FiniteSets, TLC

-----------------------------------------------------------------------------
(* Bounds of the model *)

\* date.today(), in days, the same for every run
Today == 1
\* time.time() when a process starts, in seconds since the origin
StartTime == 1
\* the provider answers a request with at most this many daily records
MaxBatch == 1
\* asset_prices is followed up to this many rows when ingestion is studied on
\* its own
MaxRows == 4

-----------------------------------------------------------------------------
(* Program constants *)

\* retry budget: the literal 5 of BackfillOrchestrator.run
MaxAttempts == 5
\* backfill_queue.max_attempts, the column get_pending_backfills compares with
max_attempts == 5
\* SymbolProcessor._calculate_backoff_delay / RateLimiter.handle_rate_limit_error
base_delay == 5
\* RateLimiter(min_delay_seconds=1.0, hourly_limit=1800)
min_delay_seconds == 1
hourly_limit == 1800
\* width of the sliding request window
WindowSeconds == 3600
\* exit codes of the batch CLI
ExitSuccess == 0
ExitError == 1
ExitInterrupted == 130

\* SQL NULL / Python None for a timestamp or a number
NULL == -1
\* a timestamp string datetime.fromisoformat cannot parse
BadTimestamp == -2
\* the process has not exited yet
NoExit == -3

-----------------------------------------------------------------------------
(* Ticker symbols are sequences of characters over a small alphabet *)

Upper == {"A", "B"}

SymA == <<"A">>
SymB == <<"B">>
SymLower == <<"a">>

\* ^[A-Z]{1,5}(\.[A-Z]{1,2})?$
_validate_symbol(symbol) ==
    LET n == Len(symbol) IN
    \E k \in 1..5 :
        /\ k <= n
        /\ \A i \in 1..k : symbol[i] \in Upper
        /\ \/ n = k
           \/ /\ n > k
              /\ symbol[k + 1] = "."
              /\ (n - k - 1) \in 1..2
              /\ \A i \in (k + 2)..n : symbol[i] \in Upper

\* the configuration files a run can be pointed at
ConfigFiles ==
    {[kind |-> k, symbols |-> <<>>] :
        k \in {"missing", "badjson", "nosymbols", "notlist", "empty"}}
    \cup {[kind |-> "ok", symbols |-> s] :
        s \in {<<SymA>>, <<SymA, SymB>>, <<SymA, SymLower>>, <<SymA, SymA>>,
               <<SymLower>>}}

\* a load_symbols that accepts an empty 'symbols' list
ConfigErrorAcceptingEmpty(cfg) ==
    IF cfg.kind = "missing" THEN "FileNotFoundError"
    ELSE IF cfg.kind \in {"badjson", "nosymbols", "notlist"} THEN "ValueError"
    ELSE "none"

\* the exception load_symbols raises for a configuration file, "none" if it
\* returns
ConfigError(cfg) ==
    IF cfg.kind = "missing" THEN "FileNotFoundError"
    ELSE IF cfg.kind \in {"badjson", "nosymbols", "notlist", "empty"} THEN "ValueError"
    ELSE "none"

ConfigRaises(cfg) == ConfigError(cfg) # "none"

\* the valid symbols of a well-formed configuration, in file order
RECURSIVE FilterValid(_)
FilterValid(symbols) ==
    IF symbols = <<>> THEN <<>>
    ELSE IF _validate_symbol(Head(symbols))
         THEN <<Head(symbols)>> \o FilterValid(Tail(symbols))
         ELSE FilterValid(Tail(symbols))

load_symbols(cfg) == FilterValid(cfg.symbols)

-----------------------------------------------------------------------------
(* Price records (fetcher.PriceData) and their validation *)

PriceData(ts, o, h, l, c, v) ==
    [timestamp |-> ts, open |-> o, high |-> h, low |-> l, close |-> c, volume |-> v]

GoodRecord(ts) == PriceData(ts, 100, 105, 99, 103, 1000)
\* high below low, open and close
BadOhlcRecord(ts) == PriceData(ts, 100, 95, 99, 103, 1000)

\* an OHLC check that does not skip records with a zero open, high or low
_validate_ohlc_consistencyCheckingZero(price) ==
    IF price.open = NULL \/ price.high = NULL \/ price.low = NULL THEN {}
    ELSE (IF price.high < price.low THEN {"high_low"} ELSE {})
         \cup (IF price.high < price.open THEN {"high_open"} ELSE {})
         \cup (IF price.high < price.close THEN {"high_close"} ELSE {})
         \cup (IF price.low > price.open THEN {"low_open"} ELSE {})
         \cup (IF price.low > price.close THEN {"low_close"} ELSE {})

_validate_ohlc_consistency(price) ==
    IF price.open = NULL \/ price.high = NULL \/ price.low = NULL THEN {}
    ELSE IF price.open = 0 \/ price.high = 0 \/ price.low = 0 THEN {}
    ELSE (IF price.high < price.low THEN {"high_low"} ELSE {})
         \cup (IF price.high < price.open THEN {"high_open"} ELSE {})
         \cup (IF price.high < price.close THEN {"high_close"} ELSE {})
         \cup (IF price.low > price.open THEN {"low_open"} ELSE {})
         \cup (IF price.low > price.close THEN {"low_close"} ELSE {})

\* the set of errors validate_price_record collects; the record is valid iff it is empty
validate_price_record(price) ==
    LET missing ==
            (IF price.timestamp = NULL THEN {"missing_timestamp"} ELSE {})
            \cup (IF price.close = NULL THEN {"missing_close"} ELSE {})
            \cup (IF price.volume = NULL THEN {"missing_volume"} ELSE {})
    IN  IF missing # {} THEN missing
        ELSE (IF price.close <= 0 THEN {"close_not_positive"} ELSE {})
             \cup (IF price.volume < 0 THEN {"volume_negative"} ELSE {})
             \cup (IF price.timestamp = BadTimestamp THEN {"bad_timestamp"} ELSE {})
             \cup (IF price.open # NULL /\ price.high # NULL /\ price.low # NULL
                   THEN _validate_ohlc_consistency(price) ELSE {})

\* a filter that keeps every record, valid or not
KeepAllPrices(prices) == prices

\* the records process() keeps: those validate_price_record finds valid
RECURSIVE ValidPrices(_)
ValidPrices(prices) ==
    IF prices = <<>> THEN <<>>
    ELSE IF validate_price_record(Head(prices)) = {}
         THEN <<Head(prices)>> \o ValidPrices(Tail(prices))
         ELSE ValidPrices(Tail(prices))

\* what the provider may answer for a task's range: nothing, one record whose
\* high is below its low, a well-formed record followed by such a record, or
\* well-formed records for the first days from start_date on
FetchBatches(task) ==
    {<<>>, <<BadOhlcRecord(task.start_date)>>,
     <<GoodRecord(task.start_date), BadOhlcRecord(task.start_date + 1)>>}
    \cup {[k \in 1..n |-> GoodRecord(task.start_date + (k - 1))] : n \in 1..MaxBatch}

\* outcomes of fetcher.fetch_historical as process() distinguishes them
FetchOutcomes == {"data", "none", "timeout", "network", "http429", "unexpected"}

\* what the provider does with the chart request: a 200 answer, a 429 answer,
\* no answer in time, a connection error, a 200 answer that cannot be parsed
ProviderResponses == {"ok", "http429", "timeout", "network", "malformed"}

\* StockFetcher.fetch_historical: the records of a 200 answer, None for any
\* other status and for every exception of the request or of the parsing
StockFetcher_fetch_historical(response) ==
    IF response = "ok" THEN "data" ELSE "none"

\* a BaseFetcher whose fetch_historical lets the errors of the request
\* propagate, as the processor's except clauses expect
BaseFetcher_fetch_historical(response) ==
    CASE response = "ok" -> "data"
      [] response = "http429" -> "http429"
      [] response = "timeout" -> "timeout"
      [] response = "network" -> "network"
      [] OTHER -> "unexpected"

\* the fetcher a SymbolProcessor is built with; BackfillOrchestrator builds
\* its processor with a StockFetcher
Fetchers == {"StockFetcher", "BaseFetcher"}

fetch_historical(fetcher, response) ==
    IF fetcher = "StockFetcher"
    THEN StockFetcher_fetch_historical(response)
    ELSE BaseFetcher_fetch_historical(response)

\* a process() without its last clause, 'except Exception'
except_clauseWithoutCatchAll(outcome) ==
    CASE outcome \in {"data", "none"} -> "no_exception"
      [] outcome = "timeout" -> "Timeout"
      [] outcome \in {"network", "http429"} -> "RequestException"
      [] OTHER -> "uncaught"

\* the except clause of process() that catches what the fetch raised
except_clause(outcome) ==
    CASE outcome \in {"data", "none"} -> "no_exception"
      [] outcome = "timeout" -> "Timeout"
      [] outcome \in {"network", "http429"} -> "RequestException"
      [] OTHER -> "Exception"

-----------------------------------------------------------------------------
(* The store and the process state *)

VARIABLES
    assets,              \* symbols that have a row in assets (asset_id ~ symbol)
    queue,               \* backfill_queue rows in creation order; id = index
    asset_prices,        \* rows of asset_prices: [asset_id, timestamp]
    now,                 \* time.time() / NOW(), in seconds since the origin
    pc,                  \* position of the orchestrator process
    conn_ok,             \* the connection accepts statements; FALSE once one has
                         \* failed (the aborted transaction is never rolled back)
    raised,              \* the exception run() ended with, "none" if it returned
    tasks,               \* the batch run() iterates over
    idx,                 \* index of the next task of the batch
    processing_results,  \* BackfillOrchestrator.processing_results
    shutdown_requested,  \* the flag the signal handler sets
    exit_code,           \* exit code of the process, NoExit while it runs
    reports,             \* the reports _log_report has logged in this run
    last_request_time,   \* RateLimiter.last_request_time
    request_timestamps,  \* RateLimiter.request_timestamps
    request_log,         \* every timestamp record_request has appended, kept
                         \* for the properties (the limiter forgets old ones)
    dispatched,          \* ids handed to SymbolProcessor.process in this run
    handled,             \* ids for which this run recorded a ProcessingResult
    stats_tracker,       \* BackfillDaemon.stats_tracker, a StatisticsTracker:
                         \*   total_cycles, successful_cycles,
                         \*   cycle_durations  the deque(maxlen=100),
                         \*   active_cycles    keys of _active_cycles,
                         \*   issued_cycles    number of ids record_cycle_start
                         \*                    has returned (the k-th uuid4 is k),
                         \*   raised           what its last call raised,
                         \*   ended_durations  durations of all ended cycles, kept
                         \*                    for the properties
    validation,          \* the record handed to DataValidator.validate_price_record
                         \* and the ValidationResult it returned
    threads              \* the threads of the daemon process:
                         \*   running          BackfillDaemon.running,
                         \*   main_pc, update_pc, stats_pc  positions of listen,
                         \*       _price_update_loop, _statistics_persistence_loop,
                         \*   main_asset, update_asset  index of the tracked asset
                         \*       the thread is writing, 0 if none,
                         \*   main_cycle, update_cycle  cycle_id the thread holds

store == <<assets, queue, asset_prices>>
clock == <<now>>
limiter == <<last_request_time, request_timestamps, request_log>>
runstate == <<pc, conn_ok, raised, tasks, idx, processing_results,
              shutdown_requested, exit_code, reports, dispatched, handled>>
vars == <<assets, queue, asset_prices, now, pc, conn_ok, raised,
          tasks, idx, processing_results, shutdown_requested, exit_code, reports,
          last_request_time, request_timestamps, request_log, dispatched,
          handled, stats_tracker, validation, threads>>
daemon == <<stats_tracker, threads>>
validator == <<validation>>

DaysOptions == {1}

\* INSERT INTO backfill_queue (asset_id, start_date, end_date, status)
NewTask(asset_id, start_date, end_date) ==
    [asset_id |-> asset_id, start_date |-> start_date, end_date |-> end_date,
     status |-> "pending", attempts |-> 0, retry_after |-> NULL,
     error_message |-> "none"]

-----------------------------------------------------------------------------
(* BackfillOrchestrator: queue seeding and selection *)

TaskExists(q, asset_id, start_date, end_date) ==
    \E i \in 1..Len(q) :
        /\ q[i].asset_id = asset_id
        /\ q[i].start_date = start_date
        /\ q[i].end_date = end_date

\* a loop body that inserts without looking for an existing task
SeedSymbolAlways(q, symbol, start_date, end_date) ==
    Append(q, NewTask(symbol, start_date, end_date))

\* the loop body of initialize_queue for one symbol: the queue after it
SeedSymbol(q, symbol, start_date, end_date) ==
    IF TaskExists(q, symbol, start_date, end_date)
    THEN q
    ELSE Append(q, NewTask(symbol, start_date, end_date))

RECURSIVE SeedAll(_, _, _, _)
SeedAll(q, symbols, start_date, end_date) ==
    IF symbols = <<>> THEN q
    ELSE SeedAll(SeedSymbol(q, Head(symbols), start_date, end_date),
                 Tail(symbols), start_date, end_date)

\* initialize_queue(symbols, days): the window is [today - days, today]
initialize_queue(q, symbols, day, ndays) ==
    SeedAll(q, symbols, day - ndays, day)

\* backfill_queue.created_at of row i: rows are created one after the other
created_at(i) == i

\* a WHERE clause that does not exclude completed rows
EligibleAlsoCompleted(row, t) ==
    \/ row.status \in {"pending", "completed"}
    \/ row.status = "failed" /\ row.attempts < max_attempts
    \/ /\ row.status = "rate_limited"
       /\ (row.retry_after = NULL \/ row.retry_after <= t)

\* a WHERE clause that returns rate_limited rows whatever their retry_after
EligibleIgnoringRetryAfter(row, t) ==
    \/ row.status \in {"pending", "rate_limited"}
    \/ row.status = "failed" /\ row.attempts < max_attempts

\* a WHERE clause that also returns the rows a process has taken up
EligibleAlsoInProgress(row, t) ==
    \/ row.status \in {"pending", "in_progress"}
    \/ row.status = "failed" /\ row.attempts < max_attempts
    \/ /\ row.status = "rate_limited"
       /\ (row.retry_after = NULL \/ row.retry_after <= t)

\* a WHERE clause that returns pending rows only
EligiblePendingOnly(row, t) == row.status = "pending"

\* the WHERE clause of get_pending_backfills
Eligible(row, t) ==
    \/ row.status = "pending"
    \/ row.status = "failed" /\ row.attempts < max_attempts
    \/ /\ row.status = "rate_limited"
       /\ (row.retry_after = NULL \/ row.retry_after <= t)

\* a BackfillTask built from row i (the fields run() and process() read)
TaskOf(q, i) ==
    [id |-> i, asset_id |-> q[i].asset_id, symbol |-> q[i].asset_id,
     start_date |-> q[i].start_date, end_date |-> q[i].end_date,
     attempts |-> q[i].attempts]

RECURSIVE SelectFrom(_, _, _)
SelectFrom(q, i, t) ==
    IF i > Len(q) THEN <<>>
    ELSE IF Eligible(q[i], t)
         THEN <<TaskOf(q, i)>> \o SelectFrom(q, i + 1, t)
         ELSE SelectFrom(q, i + 1, t)

\* ORDER BY created_at ASC: rows are kept in creation order
get_pending_backfills(q, t) == SelectFrom(q, 1, t)

\* SELECT COUNT(*) FROM asset_prices WHERE asset_id = .. AND timestamp BETWEEN ..
PriceCount(prices, asset_id, start_date, end_date) ==
    Cardinality({i \in 1..Len(prices) :
        /\ prices[i].asset_id = asset_id
        /\ prices[i].timestamp >= start_date
        /\ prices[i].timestamp <= end_date})

\* a filter that builds its result newest first
RECURSIVE FilterNewestFirst(_, _)
FilterNewestFirst(ts, prices) ==
    IF ts = <<>> THEN <<>>
    ELSE IF PriceCount(prices, Head(ts).asset_id, Head(ts).start_date,
                       Head(ts).end_date) > 0
         THEN FilterNewestFirst(Tail(ts), prices)
         ELSE FilterNewestFirst(Tail(ts), prices) \o <<Head(ts)>>

\* a filter that keeps every task
FilterKeepingAll(ts, prices) == ts

RECURSIVE _filter_tasks_with_existing_data(_, _)
_filter_tasks_with_existing_data(ts, prices) ==
    IF ts = <<>> THEN <<>>
    ELSE IF PriceCount(prices, Head(ts).asset_id, Head(ts).start_date,
                       Head(ts).end_date) > 0
         THEN _filter_tasks_with_existing_data(Tail(ts), prices)
         ELSE <<Head(ts)>> \o _filter_tasks_with_existing_data(Tail(ts), prices)

\* the batch run() iterates over
SelectBatch(q, prices, t, forced) ==
    IF forced THEN get_pending_backfills(q, t)
    ELSE _filter_tasks_with_existing_data(get_pending_backfills(q, t), prices)

-----------------------------------------------------------------------------
(* Status updates *)

\* SymbolProcessor.update_queue_status: the row after the UPDATE
ProcessorUpdate(row, status, error_message) ==
    IF status = "completed"
    THEN [row EXCEPT !.status = status]
    ELSE IF status \in {"failed", "rate_limited"}
         THEN [row EXCEPT !.status = status,
                          !.attempts = @ + 1,
                          !.error_message = error_message]
         ELSE [row EXCEPT !.status = status]

\* BackfillOrchestrator.update_queue_status: the row after the UPDATE
OrchestratorUpdate(row, status, error_message, retry_after, increment_attempts) ==
    [row EXCEPT !.status = status,
                !.error_message = IF error_message # "none" THEN error_message ELSE @,
                !.retry_after = IF retry_after # NULL THEN retry_after ELSE @,
                !.attempts = IF increment_attempts THEN @ + 1 ELSE @]

\* a marking that writes the message but leaves the status as it was
MarkedWithoutStatus(row) ==
    OrchestratorUpdate(row, row.status, "permanently_failed", NULL, FALSE)

\* a marking that counts as one more attempt
MarkedWithIncrement(row) ==
    OrchestratorUpdate(row, "failed", "permanently_failed", NULL, TRUE)

\* _mark_permanently_failed: status 'failed' with the permanent-failure message
MarkedPermanentlyFailed(row) ==
    OrchestratorUpdate(row, "failed", "permanently_failed", NULL, FALSE)

\* 2 ** n
RECURSIVE Pow2(_)
Pow2(n) == IF n <= 0 THEN 1 ELSE 2 * Pow2(n - 1)

\* a backoff whose exponent is the attempt number itself
_calculate_backoff_delayFromAttempt(attempt) == base_delay * Pow2(attempt)

\* SymbolProcessor._calculate_backoff_delay
_calculate_backoff_delay(attempt) == base_delay * Pow2(attempt - 1)

\* a backoff that grows linearly
handle_rate_limit_errorLinear(attempt) == 5 * attempt

\* RateLimiter.handle_rate_limit_error: the delay it sleeps for and returns
handle_rate_limit_error(attempt) == 5 * Pow2(attempt - 1)

-----------------------------------------------------------------------------
(* RateLimiter *)

\* a cleanup that keeps a timestamp exactly one hour old
_cleanup_old_timestampsInclusive(stamps, current_time) ==
    SelectSeq(stamps, LAMBDA ts : ts >= current_time - WindowSeconds)

\* _cleanup_old_timestamps
_cleanup_old_timestamps(stamps, current_time) ==
    SelectSeq(stamps, LAMBDA ts : ts > current_time - WindowSeconds)

\* a wait_if_needed without the minimum delay
wait_if_neededWithoutDelay(t, last, stamps) ==
    [time |-> t, stamps |-> _cleanup_old_timestamps(stamps, t)]

\* a wait_if_needed that never waits for the hourly window
RateLimiter_wait_if_neededWithoutQuota(min_delay, limit, t, last, stamps) ==
    LET t1 == IF last > 0 /\ t - last < min_delay THEN last + min_delay ELSE t
    IN  [time |-> t1, stamps |-> _cleanup_old_timestamps(stamps, t1)]

\* wait_if_needed of a RateLimiter(min_delay, limit): the time at which it
\* returns and the window it leaves
RateLimiter_wait_if_needed(min_delay, limit, t, last, stamps) ==
    LET t1 == IF last > 0 /\ t - last < min_delay THEN last + min_delay ELSE t
        s1 == _cleanup_old_timestamps(stamps, t1)
    IN  IF Len(s1) >= limit /\ WindowSeconds - (t1 - s1[1]) > 0
        THEN [time |-> s1[1] + WindowSeconds,
              stamps |-> _cleanup_old_timestamps(s1, s1[1] + WindowSeconds)]
        ELSE [time |-> t1, stamps |-> s1]

\* wait_if_needed of the limiter the orchestrator builds, RateLimiter()
wait_if_needed(t, last, stamps) ==
    RateLimiter_wait_if_needed(min_delay_seconds, hourly_limit, t, last, stamps)

\* record_request
record_request(stamps, t) == _cleanup_old_timestamps(Append(stamps, t), t)

-----------------------------------------------------------------------------
(* Storage of price rows *)

\* the row of asset_prices the INSERT statements write for a record: its key
\* and, of its price columns, high and low
PriceRow(symbol, price) ==
    [asset_id |-> symbol, timestamp |-> price.timestamp,
     high |-> price.high, low |-> price.low]

\* DatabaseLoader.load_asset_prices: the rows it inserts, those of the batch
\* whose timestamp is not stored for the asset between the batch's first and
\* last timestamp
NewRecords(prices, symbol, batch) ==
    LET lo == batch[1].timestamp
        hi == batch[Len(batch)].timestamp
        existing == {prices[i].timestamp : i \in
                        {j \in 1..Len(prices) :
                            /\ prices[j].asset_id = symbol
                            /\ prices[j].timestamp >= lo
                            /\ prices[j].timestamp <= hi}}
        fresh == SelectSeq(batch, LAMBDA p : p.timestamp \notin existing)
    IN  [k \in 1..Len(fresh) |-> PriceRow(symbol, fresh[k])]

\* a report that counts every result as a success
generate_reportCountingAll(results) ==
    LET failures == SelectSeq(results, LAMBDA r : ~r.success)
        RECURSIVE Sum(_)
        Sum(k) == IF k = 0 THEN 0 ELSE results[k].records_inserted + Sum(k - 1)
    IN  [total_symbols |-> Len(results),
         successful |-> Len(results),
         failed |-> Len(failures),
         total_records_inserted |-> Sum(Len(results)),
         failed_symbols |-> [k \in 1..Len(failures) |-> failures[k].symbol]]

\* generate_report over the results recorded so far
generate_report(results) ==
    LET ok == {i \in 1..Len(results) : results[i].success}
        ko == {i \in 1..Len(results) : ~results[i].success}
        failures == SelectSeq(results, LAMBDA r : ~r.success)
        RECURSIVE Sum(_)
        Sum(k) == IF k = 0 THEN 0 ELSE results[k].records_inserted + Sum(k - 1)
    IN  [total_symbols |-> Len(results),
         successful |-> Cardinality(ok),
         failed |-> Cardinality(ko),
         total_records_inserted |-> Sum(Len(results)),
         failed_symbols |-> [k \in 1..Len(failures) |-> failures[k].symbol]]

ProcessingResult(symbol, success, inserted, skipped) ==
    [symbol |-> symbol, success |-> success,
     records_inserted |-> inserted, records_skipped |-> skipped]

-----------------------------------------------------------------------------------------------------------------------------------------------------
(* Initial state: an empty store, no process running *)

\* the memory of a process that is not running
NoProcess ==
    /\ conn_ok = TRUE
    /\ raised = "none"
    /\ tasks = <<>>
    /\ idx = 1
    /\ processing_results = <<>>
    /\ shutdown_requested = FALSE
    /\ exit_code = NoExit
    /\ reports = <<>>
    /\ last_request_time = 0
    /\ request_timestamps = <<>>
    /\ request_log = <<>>
    /\ dispatched = <<>>
    /\ handled = <<>>

\* no record has been handed to the validator
NoValidation == [price |-> NULL, returned |-> FALSE, valid |-> FALSE, errors |-> {}]

\* StatisticsTracker.__init__
NewTracker ==
    [total_cycles |-> 0, successful_cycles |-> 0, cycle_durations |-> <<>>,
     active_cycles |-> {}, issued_cycles |-> 0, raised |-> "none",
     ended_durations |-> <<>>]

\* no daemon process has been started
NoThreads ==
    [running |-> FALSE, main_pc |-> "not_started", main_asset |-> 0,
     main_cycle |-> 0, update_pc |-> "not_started", update_asset |-> 0,
     update_cycle |-> 0, stats_pc |-> "not_started",
     conn_open |-> FALSE, listening |-> {}]

Init ==
    /\ stats_tracker = NewTracker
    /\ threads = NoThreads
    /\ validation = NoValidation
    /\ assets = {}
    /\ queue = <<>>
    /\ asset_prices = <<>>
    /\ now = StartTime
    /\ pc = "idle"
    /\ NoProcess

\* an exit code that forgets the shutdown flag
FinalExitCodeIgnoringSignal(exception, shutdown) ==
    IF exception # "none" THEN ExitError ELSE ExitSuccess

\* an exit code in which an error of run() wins over a signal
FinalExitCodeErrorFirst(exception, shutdown) ==
    IF exception # "none" THEN ExitError
    ELSE IF shutdown THEN ExitInterrupted
    ELSE ExitSuccess

\* run()'s finally block and run_once: the exit code of the process
FinalExitCode(exception, shutdown) ==
    IF shutdown THEN ExitInterrupted
    ELSE IF exception # "none" THEN ExitError
    ELSE ExitSuccess

-----------------------------------------------------------------------------
(* The batch CLI: main() builds a fresh orchestrator (and rate limiter) *)

CliStart ==
    /\ UNCHANGED <<daemon, validator>>
    /\ pc = "idle"
    /\ pc' = "created"
    /\ UNCHANGED <<store, clock, limiter, conn_ok, raised, tasks, idx,
                   processing_results, shutdown_requested, exit_code, reports,
                   dispatched, handled>>

\* run(): the process leaves with the given code
Leave(exception) ==
    /\ pc' = "exited"
    /\ raised' = exception
    /\ exit_code' = FinalExitCode(exception, shutdown_requested)

\* how the store answers run()'s set-up: it works, the connection cannot be
\* opened, or the seeding transaction is lost
DbOutcomes == {"ok", "connect_failed", "seed_rolled_back"}

\* run(force, days) up to the processing loop: connect, load_symbols,
\* initialize_queue, get_pending_backfills, skip-if-exists filter
RunSetup(cfg, f, d, db) ==
    /\ UNCHANGED <<daemon, validator>>
    /\ pc = "created"
    /\ IF db = "connect_failed" \/ ConfigRaises(cfg)
       THEN /\ Leave(IF db = "connect_failed" THEN "Exception" ELSE ConfigError(cfg))
            /\ UNCHANGED <<store, tasks>>
       ELSE LET symbols == load_symbols(cfg)
                q1 == IF db = "ok"
                      THEN initialize_queue(queue, symbols, Today, d)
                      ELSE queue
                a1 == IF db = "ok"
                      THEN assets \cup {symbols[i] : i \in 1..Len(symbols)}
                      ELSE assets
                batch == SelectBatch(q1, asset_prices, now, f)
            IN  /\ queue' = q1
                /\ assets' = a1
                /\ tasks' = batch
                /\ UNCHANGED asset_prices
                /\ IF batch = <<>>
                   THEN Leave("none")
                   ELSE pc' = "loop" /\ UNCHANGED <<exit_code, raised>>
    /\ UNCHANGED <<clock, limiter, conn_ok, idx, processing_results, shutdown_requested,
                   reports, dispatched, handled>>

\* Between two processes the store keeps of a deadline only whether it has
\* been reached: StartTime for a retry_after that is due when the process is
\* gone, StartTime + 1 for one that is still ahead
Settle(t, current_time) ==
    IF t = NULL THEN NULL
    ELSE IF t <= current_time THEN StartTime ELSE StartTime + 1

Rebase(q, current_time) ==
    [i \in 1..Len(q) |-> [q[i] EXCEPT !.retry_after = Settle(@, current_time)]]

\* the exited process is gone, its memory with it; the next process starts at
\* StartTime
Reap ==
    /\ UNCHANGED <<daemon, validator>>
    /\ pc = "exited"
    /\ pc' = "idle"
    /\ conn_ok' = TRUE
    /\ raised' = "none"
    /\ tasks' = <<>>
    /\ idx' = 1
    /\ processing_results' = <<>>
    /\ shutdown_requested' = FALSE
    /\ exit_code' = NoExit
    /\ reports' = <<>>
    /\ last_request_time' = 0
    /\ request_timestamps' = <<>>
    /\ request_log' = <<>>
    /\ dispatched' = <<>>
    /\ handled' = <<>>
    /\ now' = StartTime
    /\ queue' = Rebase(queue, now)
    /\ UNCHANGED <<assets, asset_prices>>

\* the signal handler
Signal ==
    /\ UNCHANGED <<daemon, validator>>
    /\ pc \in {"created", "loop", "processing"}
    /\ ~shutdown_requested
    /\ shutdown_requested' = TRUE
    /\ UNCHANGED <<store, clock, limiter, pc, conn_ok, raised, tasks,
                   idx, processing_results, exit_code, reports, dispatched, handled>>

\* loop top with the flag set: _save_shutdown_progress, break, final report
ShutdownStop ==
    /\ UNCHANGED <<daemon, validator>>
    /\ pc = "loop"
    /\ idx <= Len(tasks)
    /\ shutdown_requested
    /\ reports' = reports
                  \o (IF processing_results # <<>>
                      THEN <<generate_report(processing_results)>> ELSE <<>>)
                  \o <<generate_report(processing_results)>>
    /\ Leave("none")
    /\ UNCHANGED <<store, clock, limiter, conn_ok, tasks, idx,
                   processing_results, shutdown_requested, dispatched, handled>>

\* a task that has used up its attempts is marked and not processed
MarkPermanent(written) ==
    /\ UNCHANGED <<daemon, validator>>
    /\ pc = "loop"
    /\ idx <= Len(tasks)
    /\ ~shutdown_requested
    /\ tasks[idx].attempts >= MaxAttempts
    /\ written => conn_ok
    /\ conn_ok' = written
    /\ LET task == tasks[idx] IN
        /\ queue' = IF written
                    THEN [queue EXCEPT ![task.id] = MarkedPermanentlyFailed(@)]
                    ELSE queue
        /\ processing_results' =
               Append(processing_results, ProcessingResult(task.symbol, FALSE, 0, 0))
        /\ handled' = Append(handled, task.id)
    /\ idx' = idx + 1
    /\ UNCHANGED <<assets, asset_prices, clock, limiter, pc, raised,
                   tasks, shutdown_requested, exit_code, reports, dispatched>>

\* process(): mark in_progress, then wait for the rate limiter
ProcessBegin(written) ==
    /\ UNCHANGED <<daemon, validator>>
    /\ pc = "loop"
    /\ idx <= Len(tasks)
    /\ ~shutdown_requested
    /\ tasks[idx].attempts < MaxAttempts
    /\ written => conn_ok
    /\ conn_ok' = written
    /\ LET task == tasks[idx]
           w == wait_if_needed(now, last_request_time, request_timestamps)
       IN  /\ queue' = IF written
                       THEN [queue EXCEPT ![task.id] =
                                ProcessorUpdate(@, "in_progress", "none")]
                       ELSE queue
           /\ now' = w.time
           /\ request_timestamps' = w.stamps
           /\ dispatched' = Append(dispatched, task.id)
    /\ pc' = "processing"
    /\ UNCHANGED <<assets, asset_prices, last_request_time, request_log,
                   raised, tasks, idx, processing_results, shutdown_requested,
                   exit_code, reports, handled>>

\* the failure branches of process(): status 'failed' (attempts + 1), then
\* retry_after = now + backoff(task.attempts + 1); each UPDATE may be lost
FailedRow(row, task, t, statusWritten, retryWritten) ==
    LET r1 == IF statusWritten THEN ProcessorUpdate(row, "failed", "error") ELSE row
    IN  IF retryWritten
        THEN [r1 EXCEPT !.retry_after = t + _calculate_backoff_delay(task.attempts + 1)]
        ELSE r1

\* the HTTP 429 branch: status 'rate_limited' (attempts + 1), then
\* retry_after = (time after the backoff sleep) + delay
RateLimitedRow(row, task, t, statusWritten, retryWritten) ==
    LET delay == handle_rate_limit_error(task.attempts + 1)
        r1 == IF statusWritten
              THEN ProcessorUpdate(row, "rate_limited", "rate_limited") ELSE row
    IN  IF retryWritten
        THEN [r1 EXCEPT !.retry_after = (t + delay) + delay]
        ELSE r1

\* outcomes of the storage block of process(): both statements succeed,
\* load_asset_prices raises, or update_tracked_asset_timestamp raises after
\* the rows were committed
PersistOutcomes == {"ok", "load_failed", "tracked_failed"}

\* process() from the fetch to the returned ProcessingResult; an exception no
\* clause of process() catches reaches run(), which logs it and raises it again
ProcessFinish(outcome, batch, persist, statusWritten, retryWritten) ==
    /\ UNCHANGED <<daemon, validator>>
    /\ pc = "processing"
    /\ outcome # "data" => batch = <<>>
    /\ IF except_clause(outcome) = "uncaught"
       THEN /\ persist = "ok" /\ ~statusWritten /\ ~retryWritten
            /\ Leave("Exception")
            /\ UNCHANGED <<store, clock, limiter, conn_ok, idx,
                           processing_results, handled>>
       ELSE
       /\ LET task == tasks[idx]
              valid == ValidPrices(batch)
              invalid_count == Len(batch) - Len(valid)
              stores == outcome = "data" /\ valid # <<>>
              rows == IF stores /\ persist # "load_failed"
                      THEN NewRecords(asset_prices, task.symbol, valid) ELSE <<>>
              completes == outcome = "data" /\ persist = "ok"
              recorded == except_clause(outcome) = "no_exception"
          IN  /\ ~stores => persist = "ok"
              /\ (stores /\ persist # "load_failed") => conn_ok
              /\ statusWritten => (conn_ok /\ persist = "ok")
              /\ IF completes THEN retryWritten = statusWritten
                              ELSE retryWritten => statusWritten
              /\ conn_ok' = retryWritten
              /\ asset_prices' = asset_prices \o rows
              /\ IF completes
                 THEN /\ queue' = IF statusWritten
                                  THEN [queue EXCEPT ![task.id] =
                                           ProcessorUpdate(@, "completed", "none")]
                                  ELSE queue
                      /\ processing_results' =
                             Append(processing_results,
                                    ProcessingResult(task.symbol, TRUE, Len(rows),
                                        (Len(valid) - Len(rows)) + invalid_count))
                      /\ now' = now
                 ELSE /\ processing_results' =
                             Append(processing_results,
                                    ProcessingResult(task.symbol, FALSE, 0, 0))
                      /\ IF outcome = "http429"
                         THEN /\ now' = now + handle_rate_limit_error(task.attempts + 1)
                              /\ queue' = [queue EXCEPT ![task.id] =
                                     RateLimitedRow(@, task, now, statusWritten, retryWritten)]
                         ELSE /\ now' = now
                              /\ queue' = [queue EXCEPT ![task.id] =
                                     FailedRow(@, task, now, statusWritten, retryWritten)]
              /\ IF recorded
                 THEN /\ last_request_time' = now
                      /\ request_timestamps' = record_request(request_timestamps, now)
                      /\ request_log' = Append(request_log, now)
                 ELSE UNCHANGED limiter
              /\ handled' = Append(handled, task.id)
       /\ idx' = idx + 1
       /\ pc' = "loop"
       /\ UNCHANGED <<assets, raised, exit_code>>
    /\ UNCHANGED <<tasks, shutdown_requested, reports, dispatched>>

\* the loop is exhausted: final report, then the finally block
LoopDone ==
    /\ UNCHANGED <<daemon, validator>>
    /\ pc = "loop"
    /\ idx > Len(tasks)
    /\ reports' = Append(reports, generate_report(processing_results))
    /\ Leave("none")
    /\ UNCHANGED <<store, clock, limiter, conn_ok, tasks, idx,
                   processing_results, shutdown_requested, dispatched, handled>>

-----------------------------------------------------------------------------
(* Time *)

\* while no process runs, time passes and the retry_after of row i is reached
Tick(i) ==
    /\ UNCHANGED <<daemon, validator>>
    /\ pc = "idle"
    /\ i \in 1..Len(queue)
    /\ queue[i].retry_after > now
    /\ queue' = [queue EXCEPT ![i].retry_after = StartTime]
    /\ UNCHANGED <<assets, asset_prices, clock, limiter, runstate>>

-----------------------------------------------------------------------------

Next ==
    \/ CliStart
    \/ \E cfg \in ConfigFiles, f \in BOOLEAN, d \in DaysOptions, db \in DbOutcomes :
          RunSetup(cfg, f, d, db)
    \/ Reap
    \/ Signal
    \/ ShutdownStop
    \/ \E written \in BOOLEAN : MarkPermanent(written)
    \/ \E written \in BOOLEAN : ProcessBegin(written)
    \/ \E outcome \in {fetch_historical(fetcher, response) :
                            fetcher \in Fetchers, response \in ProviderResponses},
          persist \in PersistOutcomes,
          statusWritten \in BOOLEAN, retryWritten \in BOOLEAN :
          \E batch \in (IF pc = "processing" THEN FetchBatches(tasks[idx]) ELSE {}) :
              ProcessFinish(outcome, batch, persist, statusWritten, retryWritten)
    \/ LoopDone
    \/ \E i \in 1..Len(queue) : Tick(i)

Spec == Init /\ [][Next]_vars

-----------------------------------------------------------------------------
(* Ingestion on its own: every writer of asset_prices, in any order, next to *)
(* the set-up of a batch run that finds their rows                          *)

\* asset_prices as the persisted schema lists it: uniqueness per
\* (asset_id, timestamp) is left to the writers, the table has no unique index
asset_prices_unique_index == FALSE

\* the days the provider has records for
IngestDays == {Today - 1, Today}

\* the batches load_asset_prices can be handed: one or two records over those
\* days, in any order, the same day twice included
LoadBatches ==
    {<<GoodRecord(a)>> : a \in IngestDays}
    \cup {<<GoodRecord(a), GoodRecord(b)>> : a, b \in IngestDays}

\* the columns a unique index on asset_prices would cover
PriceKey(row) == <<row.asset_id, row.timestamp>>

HasRow(prices, row) ==
    \E i \in 1..Len(prices) : PriceKey(prices[i]) = PriceKey(row)

\* the INSERT of load_asset_prices for the rows it found new: with a unique
\* index a repeated row makes the statement fail and nothing is stored
InsertPrices(prices, rows) ==
    IF /\ asset_prices_unique_index
       /\ \E i, j \in 1..Len(rows) : i # j /\ PriceKey(rows[i]) = PriceKey(rows[j])
    THEN prices
    ELSE prices \o rows

\* INSERT ... ON CONFLICT DO NOTHING of the daemon's refresh: only a unique
\* index can raise a conflict
InsertOnConflictDoNothing(prices, row) ==
    IF asset_prices_unique_index /\ HasRow(prices, row)
    THEN prices
    ELSE Append(prices, row)

\* load_asset_prices, called by process(), by the daemon's _backfill_asset
\* and by populate_db
LoadAssetPrices(symbol, batch) ==
    /\ UNCHANGED <<daemon, validator>>
    /\ Len(asset_prices) + Len(batch) <= MaxRows
    /\ assets' = assets \cup {symbol}
    /\ asset_prices' =
           InsertPrices(asset_prices, NewRecords(asset_prices, symbol, batch))
    /\ UNCHANGED <<queue, clock, limiter, runstate>>

\* _update_tracked_prices: the current price of a tracked asset is inserted
DaemonRefresh(symbol, day) ==
    /\ UNCHANGED <<daemon, validator>>
    /\ Len(asset_prices) < MaxRows
    /\ symbol \in assets
    /\ asset_prices' =
           InsertOnConflictDoNothing(asset_prices,
                                     PriceRow(symbol, GoodRecord(day)))
    /\ UNCHANGED <<assets, queue, clock, limiter, runstate>>

\* what the provider may answer the daemon's request for a year of history:
\* well-formed records, a record whose high is below its low, or both
DaemonFetchBatches ==
    LoadBatches
    \cup {<<BadOhlcRecord(a)>> : a \in IngestDays}
    \cup {<<GoodRecord(Today - 1), BadOhlcRecord(Today)>>}

\* _needs_backfill: SELECT COUNT(*) FROM asset_prices WHERE asset_id = .. is 0
_needs_backfill(prices, asset_id) ==
    \A i \in 1..Len(prices) : prices[i].asset_id # asset_id

\* _handle_notification and _backfill_asset for a transaction on a known
\* asset without prices: fetch_historical answers with records, which are
\* handed to load_asset_prices as they came
BackfillAsset(symbol, batch) ==
    /\ UNCHANGED <<daemon, validator>>
    /\ symbol \in assets
    /\ _needs_backfill(asset_prices, symbol)
    /\ Len(asset_prices) + Len(batch) <= MaxRows
    /\ asset_prices' =
           InsertPrices(asset_prices, NewRecords(asset_prices, symbol, batch))
    /\ UNCHANGED <<assets, queue, clock, limiter, runstate>>

IngestNext ==
    \/ \E symbol \in {SymA, SymB}, batch \in LoadBatches :
          LoadAssetPrices(symbol, batch)
    \/ \E symbol \in {SymA, SymB}, batch \in DaemonFetchBatches :
          BackfillAsset(symbol, batch)
    \/ \E symbol \in {SymA, SymB}, day \in IngestDays :
          DaemonRefresh(symbol, day)
    \/ CliStart
    \/ \E cfg \in ConfigFiles, f \in BOOLEAN, d \in DaysOptions, db \in DbOutcomes :
          RunSetup(cfg, f, d, db)

IngestSpec == Init /\ [][IngestNext]_vars

-----------------------------------------------------------------------------
(* Properties *)

Range(seq) == {seq[k] : k \in 1..Len(seq)}

\* the ids of the tasks get_pending_backfills returns
PendingIds(q, t) == {get_pending_backfills(q, t)[k].id : k \in 1..Len(get_pending_backfills(q, t))}

\* C1: once a task's status is completed, no step of any run changes its
\* status or its attempts, and get_pending_backfills does not return it
C1_CompletedIsTerminal ==
    [][\A i \in 1..Len(queue) :
          queue[i].status = "completed" =>
              /\ i <= Len(queue')
              /\ queue'[i].status = "completed"
              /\ queue'[i].attempts = queue[i].attempts
              /\ i \notin PendingIds(queue, now)
              /\ i \notin PendingIds(queue', now')]_vars

\* a later run has built a batch next to a completed task and finished
C1_Witness ==
    /\ pc = "exited"
    /\ tasks # <<>>
    /\ \E i \in 1..Len(queue) :
          /\ queue[i].status = "completed"
          /\ \A k \in 1..Len(tasks) : tasks[k].id # i
          /\ \E k \in 1..Len(tasks) : tasks[k].id > i

\* the step in which run() moves past a task that has used up its attempts
PermanentFailureStep ==
    /\ pc = "loop"
    /\ idx <= Len(tasks)
    /\ ~shutdown_requested
    /\ tasks[idx].attempts >= 5
    /\ idx' = idx + 1

\* what C2 states of every task, whether or not the store accepts the update
NotDispatchedButRecorded ==
    /\ (pc' = "processing" /\ pc = "loop") =>
          /\ tasks[idx].attempts < 5
          /\ queue[tasks[idx].id].attempts < 5
    /\ PermanentFailureStep =>
          /\ pc' = "loop"
          /\ dispatched' = dispatched
          /\ UNCHANGED limiter
          /\ processing_results' =
                 Append(processing_results,
                        ProcessingResult(tasks[idx].symbol, FALSE, 0, 0))

C3_ExhaustedTaskIsMarked ==
    (pc = "exited" /\ raised = "none" /\ ~shutdown_requested /\ conn_ok) =>
        \A i \in 1..Len(queue) :
            (/\ i \notin Range(handled)
             /\ queue[i].status = "failed"
             /\ queue[i].attempts >= 5
             /\ queue[i].retry_after # NULL
             /\ PriceCount(asset_prices, queue[i].asset_id,
                           queue[i].start_date, queue[i].end_date) = 0)
            => queue[i].error_message = "permanently_failed"

\* C4: attempts never decreases; it changes only in a step of process() that
\* sets failed or rate_limited, and then by exactly 1; the steps that set
\* in_progress or completed and the permanent-failure marking leave it alone
C4_AttemptsOnlyOnFailure ==
    [][/\ Len(queue') >= Len(queue)
       /\ \A i \in 1..Len(queue) :
             /\ queue'[i].attempts >= queue[i].attempts
             /\ queue'[i].attempts # queue[i].attempts =>
                   /\ pc = "processing"
                   /\ i = tasks[idx].id
                   /\ queue'[i].attempts = queue[i].attempts + 1
                   /\ queue'[i].status \in {"failed", "rate_limited"}
             /\ (pc = "processing" /\ queue'[i].status # queue[i].status
                     /\ queue'[i].status \in {"failed", "rate_limited"}) =>
                   queue'[i].attempts = queue[i].attempts + 1
             /\ (queue'[i].status # queue[i].status
                     /\ queue'[i].status \in {"in_progress", "completed"}) =>
                   queue'[i].attempts = queue[i].attempts
             /\ PermanentFailureStep => queue'[i].attempts = queue[i].attempts]_vars

\* a task has gone through five failures and the permanent-failure marking
C4_Witness ==
    \E i \in 1..Len(queue) :
        /\ queue[i].attempts = 5
        /\ queue[i].status = "failed"
        /\ queue[i].error_message = "permanently_failed"

SameTask(r1, r2) ==
    /\ r1.asset_id = r2.asset_id
    /\ r1.start_date = r2.start_date
    /\ r1.end_date = r2.end_date

NoDuplicateTask(q) ==
    \A i, j \in 1..Len(q) : SameTask(q[i], q[j]) => i = j

ReEligibleAsStated(row, t) ==
    \/ row.status = "pending"
    \/ row.status = "failed" /\ row.attempts < 5
    \/ row.status = "rate_limited" /\ row.retry_after # NULL /\ row.retry_after <= t

\* the rule with the rate_limited rows that have no retry_after
ReEligibleOrUnscheduled(row, t) ==
    \/ row.status = "pending"
    \/ row.status = "failed" /\ row.attempts < 5
    \/ row.status = "rate_limited" /\ (row.retry_after = NULL \/ row.retry_after <= t)

C7_FifoWithinRun ==
    /\ \A a, b \in 1..Len(tasks) :
          a < b => created_at(tasks[a].id) < created_at(tasks[b].id)
    /\ \A a, b \in 1..Len(dispatched) :
          a < b => created_at(dispatched[a]) < created_at(dispatched[b])
    /\ \A a, b \in 1..Len(handled) :
          a < b => created_at(handled[a]) < created_at(handled[b])
    /\ \A a \in 1..Len(dispatched) :
          a < Len(dispatched) => dispatched[a] \in Range(handled)
    /\ pc = "processing" =>
          /\ dispatched[Len(dispatched)] = tasks[idx].id
          /\ tasks[idx].id \notin Range(handled)
          /\ \A k \in 1..(idx - 1) : tasks[k].id \in Range(handled)
    /\ pc # "processing" => Range(dispatched) \subseteq Range(handled)

\* a run without force has processed two tasks one after the other
C7_Witness ==
    /\ pc = "exited"
    /\ Len(dispatched) = 2
    /\ dispatched = handled
    /\ dispatched[1] < dispatched[2]

\* C8: with the flag set and tasks remaining, run() dispatches nothing more:
\* it stops at the loop top, leaves the store as it is, logs a report built
\* from the results of exactly the tasks handled so far, and the process exits
\* with code 130
C8_ShutdownStopsTheRun ==
    [][/\ (shutdown_requested /\ pc = "loop" /\ idx <= Len(tasks)) =>
             /\ pc' = "exited"
             /\ exit_code' = 130
             /\ dispatched' = dispatched
             /\ handled' = handled
             /\ UNCHANGED <<store, processing_results>>
             /\ Len(reports') > Len(reports)
             /\ \A k \in (Len(reports) + 1)..Len(reports') :
                   reports'[k] = generate_report(processing_results)
             /\ generate_report(processing_results).total_symbols = idx - 1
             /\ Len(processing_results) = Len(handled)
             /\ \A k \in 1..Len(handled) :
                   /\ handled[k] = tasks[k].id
                   /\ processing_results[k].symbol = tasks[k].symbol
       /\ (shutdown_requested /\ pc' = "exited") => exit_code' = 130]_vars

\* a run was interrupted after its first task, which stays completed
C8_Witness ==
    /\ pc = "exited"
    /\ shutdown_requested
    /\ exit_code = 130
    /\ Len(tasks) = 2
    /\ idx = 2
    /\ dispatched = <<tasks[1].id>>
    /\ queue[tasks[1].id].status = "completed"
    /\ queue[tasks[2].id].status = "pending"
    /\ reports = <<generate_report(processing_results),
                   generate_report(processing_results)>>

\* the configuration errors C9 names
ClaimedConfigErrors == {"missing", "badjson", "nosymbols", "empty"}

C10_FailuresGiveNonZeroExit ==
    (/\ pc = "exited"
     /\ reports # <<>>
     /\ conn_ok
     /\ \E k \in 1..Len(processing_results) :
           /\ ~processing_results[k].success
           /\ queue[handled[k]].status = "failed")
    => exit_code # 0

\* C11: for every dispatched task process() returns a ProcessingResult and
\* raises nothing, whatever fails in the wait, the fetch, the validation, the
\* storage or the status updates; run() records the result and goes on with
\* the next task, so that a run that is not interrupted handles every task of
\* its batch, whatever the results of the earlier ones
C11_FailureIsolation ==
    [][/\ (pc = "processing" /\ pc' # "processing") =>
             /\ pc' = "loop"
             /\ raised' = "none"
             /\ exit_code' = NoExit
             /\ tasks' = tasks
             /\ idx' = idx + 1
             /\ Len(processing_results') = Len(processing_results) + 1
             /\ SubSeq(processing_results', 1, Len(processing_results))
                    = processing_results
             /\ processing_results'[idx].symbol = tasks[idx].symbol
       /\ (pc = "loop" /\ idx <= Len(tasks) /\ ~shutdown_requested
              /\ tasks[idx].attempts < 5 /\ idx' # idx) =>
             /\ pc' = "processing"
             /\ dispatched' = Append(dispatched, tasks[idx].id)
       /\ (pc = "loop" /\ pc' = "exited") =>
             /\ raised' = "none"
             /\ ~shutdown_requested =>
                   /\ Len(processing_results) = Len(tasks)
                   /\ \A k \in 1..Len(tasks) :
                         /\ handled[k] = tasks[k].id
                         /\ tasks[k].attempts < 5 => tasks[k].id \in Range(dispatched)]_vars

\* a run has dispatched its second task after the first one failed with
\* every status update lost, and has ended normally
C11_Witness ==
    /\ pc = "exited"
    /\ raised = "none"
    /\ Len(tasks) = 2
    /\ dispatched = <<tasks[1].id, tasks[2].id>>
    /\ ~processing_results[1].success
    /\ queue[tasks[1].id].status = "pending"
    /\ Len(processing_results) = 2

\* C12: when the provider answers the fetch of a task with HTTP 429 and the
\* store accepts the updates, process() leaves the task rate_limited with one
\* more attempt and retry_after = the current time + the RateLimiter's backoff
\* delay for that attempt, and returns a failed result
C12_RateLimitAnswerGivesRateLimited ==
    [][(pc = "processing" /\ pc' # "processing") =>
       \A fetcher \in Fetchers :
          (/\ pc = "processing"
           /\ ProcessFinish(fetch_historical(fetcher, "http429"), <<>>, "ok",
                            TRUE, TRUE)) =>
              LET id == tasks[idx].id IN
              /\ queue'[id].status = "rate_limited"
              /\ queue'[id].attempts = queue[id].attempts + 1
              /\ queue'[id].retry_after
                     = now' + handle_rate_limit_error(tasks[idx].attempts + 1)
              /\ ~processing_results'[idx].success
              /\ processing_results'[idx].records_inserted = 0]_vars

\* the fetch outcomes C13 is about: None, a timeout, a network error
FetchFailures == {"none", "timeout", "network"}

\* what C13 states of the returned result, whether or not the store accepts
\* the updates
FailedResultReturned ==
    /\ Len(processing_results') = Len(processing_results) + 1
    /\ processing_results'[idx] = ProcessingResult(tasks[idx].symbol, FALSE, 0, 0)
    /\ asset_prices' = asset_prices

C14_StorageErrorGivesFailed ==
    [][(pc = "processing" /\ pc' # "processing") =>
       \A persist \in {"load_failed", "tracked_failed"}, statusWritten \in BOOLEAN,
          retryWritten \in {conn_ok'} :
          \A batch \in (IF pc = "processing" THEN FetchBatches(tasks[idx]) ELSE {}) :
              (/\ pc = "processing"
               /\ conn_ok
               /\ queue[tasks[idx].id].status = "in_progress"
               /\ ValidPrices(batch) # <<>>
               /\ ProcessFinish("data", batch, persist, statusWritten, retryWritten)) =>
                  LET id == tasks[idx].id IN
                  /\ queue'[id].status = "failed"
                  /\ queue'[id].attempts = queue[id].attempts + 1
                  /\ queue'[id].retry_after
                         = now + _calculate_backoff_delay(tasks[idx].attempts + 1)
                  /\ processing_results'[idx]
                         = ProcessingResult(tasks[idx].symbol, FALSE, 0, 0)]_vars

\* C15: a task that has failed is not dispatched again before its recorded
\* retry_after: run() builds no batch with, and hands to process() no, failed
\* task whose retry_after lies in the future
C15_RetryHonoursBackoff ==
    [][/\ (pc = "created" /\ pc' = "loop") =>
             \A k \in 1..Len(tasks') :
                 queue'[tasks'[k].id].status = "failed" =>
                     queue'[tasks'[k].id].retry_after <= now
       /\ (pc = "loop" /\ pc' = "processing") =>
             (queue[tasks[idx].id].status = "failed" =>
                 queue[tasks[idx].id].retry_after <= now)]_vars

\* the records of a batch that fail validation
InvalidRecords(batch) ==
    {k \in 1..Len(batch) : validate_price_record(batch[k]) # {}}

\* what C16 states of the stored rows and of the result, whether or not the
\* store accepts the status update: the rows added are those of records
\* validate_price_record found valid, and invalid records do not make the
\* task fail
OnlyValidRecordsStored(batch, persist) ==
    LET id == tasks[idx].id
        added == SubSeq(asset_prices', Len(asset_prices) + 1, Len(asset_prices'))
    IN  /\ SubSeq(asset_prices', 1, Len(asset_prices)) = asset_prices
        /\ \A r \in Range(added) :
              /\ r.asset_id = tasks[idx].asset_id
              /\ \E k \in 1..Len(batch) :
                    /\ validate_price_record(batch[k]) = {}
                    /\ batch[k].timestamp = r.timestamp
        /\ \A k \in InvalidRecords(batch) :
              \A r \in Range(added) : r.timestamp # batch[k].timestamp
        /\ (persist = "ok" /\ InvalidRecords(batch) # {}) =>
              /\ processing_results'[idx].success
              /\ processing_results'[idx].records_inserted = Len(added)
              /\ processing_results'[idx].records_skipped
                     >= Cardinality(InvalidRecords(batch))
              /\ queue'[id].status \in {"completed", queue[id].status}
              /\ queue'[id].attempts = queue[id].attempts
              /\ queue'[id].error_message = queue[id].error_message

C17_PriceRowsAreUnique ==
    \A i, j \in 1..Len(asset_prices) :
        (/\ asset_prices[i].asset_id = asset_prices[j].asset_id
         /\ asset_prices[i].timestamp = asset_prices[j].timestamp) => i = j

\* the sum of records_inserted over a list of results
RECURSIVE SumInserted(_)
SumInserted(results) ==
    IF results = <<>> THEN 0
    ELSE Head(results).records_inserted + SumInserted(Tail(results))

\* the symbols of the unsuccessful results of a list, in its order
RECURSIVE FailedSymbols(_)
FailedSymbols(results) ==
    IF results = <<>> THEN <<>>
    ELSE (IF Head(results).success THEN <<>> ELSE <<Head(results).symbol>>)
         \o FailedSymbols(Tail(results))

\* C18: the report generate_report builds from the results recorded so far,
\* and every report a run has logged, final or partial, has total_symbols =
\* successful + failed = the number of results, total_records_inserted = the
\* sum of their records_inserted, and failed_symbols = the symbols of the
\* unsuccessful results in processing order
C18_ReportMatchesResults ==
    LET report == generate_report(processing_results) IN
    /\ report.total_symbols = Len(processing_results)
    /\ report.total_symbols = report.successful + report.failed
    /\ report.failed = Len(FailedSymbols(processing_results))
    /\ report.total_records_inserted = SumInserted(processing_results)
    /\ report.failed_symbols = FailedSymbols(processing_results)
    /\ \A k \in 1..Len(reports) : reports[k] = report

\* a run has logged the report of one success with a stored record and one
\* failure
C18_Witness ==
    /\ pc = "exited"
    /\ Len(processing_results) = 2
    /\ reports = <<[total_symbols |-> 2, successful |-> 1, failed |-> 1,
                    total_records_inserted |-> 1, failed_symbols |-> <<SymB>>]>>

\* the asset of a task has no price row with timestamp in the task's window
NoRowInWindow(prices, task) ==
    ~ \E i \in 1..Len(prices) :
          /\ prices[i].asset_id = task.asset_id
          /\ task.start_date <= prices[i].timestamp
          /\ prices[i].timestamp <= task.end_date

\* seq is sub with some of its elements removed, the order kept
RECURSIVE IsSubSeq(_, _)
IsSubSeq(sub, seq) ==
    IF sub = <<>> THEN TRUE
    ELSE IF seq = <<>> THEN FALSE
    ELSE IF Head(sub) = Head(seq) THEN IsSubSeq(Tail(sub), Tail(seq))
    ELSE IsSubSeq(sub, Tail(seq))

\* C19: without force the batch run() goes through holds an eligible task iff
\* its asset has no price row with timestamp in [start_date, end_date], a
\* task with such a row being removed; with force the batch is every eligible
\* task
C19_SkipIfExists ==
    [][(pc = "created" /\ pc' # "created") =>
       \A cfg \in {c \in ConfigFiles : ~ConfigRaises(c)}, f \in BOOLEAN,
          d \in DaysOptions, db \in {"ok", "seed_rolled_back"} :
          RunSetup(cfg, f, d, db) =>
              LET eligible == get_pending_backfills(queue', now) IN
              IF f
              THEN tasks' = eligible
              ELSE /\ IsSubSeq(tasks', eligible)
                   /\ \A k \in 1..Len(eligible) :
                         (eligible[k] \in Range(tasks'))
                             <=> NoRowInWindow(asset_prices, eligible[k])]_vars

\* a run without force has left aside the task of an asset that has a price
\* row in the window and kept the task of one that has none
C19_Witness ==
    /\ pc = "loop"
    /\ Len(queue) = 2
    /\ queue[1].status = "pending"
    /\ tasks = <<TaskOf(queue, 2)>>
    /\ ~NoRowInWindow(asset_prices, TaskOf(queue, 1))
    /\ NoRowInWindow(asset_prices, TaskOf(queue, 2))

\* C20: when wait_if_needed returns, at least min_delay_seconds have passed
\* since the last record_request, the first request of a limiter not being
\* delayed; the requests recorded one after the other are therefore at least
\* min_delay_seconds apart
C20_MinimumDelayBetweenRequests ==
    [][/\ (pc = "loop" /\ pc' = "processing") =>
             /\ now' >= now
             /\ last_request_time > 0 =>
                   /\ now' - last_request_time >= min_delay_seconds
                   /\ (now - last_request_time >= min_delay_seconds) => now' = now
             /\ last_request_time = 0 => now' = now
       /\ last_request_time' # last_request_time =>
             \/ last_request_time' = 0
             \/ /\ last_request_time' = now
                /\ last_request_time > 0 =>
                      last_request_time' - last_request_time >= min_delay_seconds
       /\ \A k \in 1..(Len(request_timestamps') - 1) :
             request_timestamps'[k + 1] - request_timestamps'[k]
                 >= min_delay_seconds]_vars

\* the second request of a run has waited until min_delay_seconds after the
\* first one was recorded
C20_Witness ==
    /\ pc = "processing"
    /\ Len(dispatched) = 2
    /\ request_timestamps = <<StartTime>>
    /\ last_request_time = StartTime
    /\ now = StartTime + min_delay_seconds

-----------------------------------------------------------------------------
(* The rate limiter on its own: a RateLimiter built with a small hourly   *)
(* limit and driven by the protocol of SymbolProcessor.process, that is   *)
(* wait_if_needed, the request, record_request.                           *)

\* the hourly_limit the limiter under study is constructed with
SmallLimit == 2
\* the number of requests the limiter under study records
MaxRequests == 4

\* seconds the caller may spend between two requests
IdleTimes == {1, WindowSeconds - 1, WindowSeconds}
\* seconds a request may take before record_request is called
RequestTimes == {0, 1}

\* RateLimiter(min_delay_seconds, SmallLimit)
LimiterInit ==
    /\ stats_tracker = NewTracker
    /\ threads = NoThreads
    /\ validation = NoValidation
    /\ assets = {}
    /\ queue = <<>>
    /\ asset_prices = <<>>
    /\ now = StartTime
    /\ pc = "limiter_ready"
    /\ NoProcess

\* wait_if_needed
LimiterWait ==
    /\ UNCHANGED <<daemon, validator>>
    /\ pc = "limiter_ready"
    /\ Len(request_log) < MaxRequests
    /\ LET w == RateLimiter_wait_if_needed(min_delay_seconds, SmallLimit, now,
                                           last_request_time, request_timestamps)
       IN  /\ now' = w.time
           /\ request_timestamps' = w.stamps
    /\ pc' = "limiter_waited"
    /\ UNCHANGED <<store, last_request_time, request_log, conn_ok, raised, tasks,
                   idx, processing_results, shutdown_requested, exit_code,
                   reports, dispatched, handled>>

\* the request, which takes d seconds, then record_request
LimiterRecord(d) ==
    /\ UNCHANGED <<daemon, validator>>
    /\ pc = "limiter_waited"
    /\ now' = now + d
    /\ last_request_time' = now'
    /\ request_timestamps' = record_request(request_timestamps, now')
    /\ request_log' = Append(request_log, now')
    /\ pc' = "limiter_ready"
    /\ UNCHANGED <<store, conn_ok, raised, tasks, idx, processing_results,
                   shutdown_requested, exit_code, reports, dispatched, handled>>

\* the caller does something else for d seconds
LimiterIdle(d) ==
    /\ UNCHANGED <<daemon, validator>>
    /\ pc = "limiter_ready"
    /\ Len(request_log) \in 1..(MaxRequests - 1)
    /\ now - last_request_time < d
    /\ now' = now + d
    /\ UNCHANGED <<store, limiter, runstate>>

LimiterNext ==
    \/ LimiterWait
    \/ \E d \in RequestTimes : LimiterRecord(d)
    \/ \E d \in IdleTimes : LimiterIdle(d)

LimiterSpec == LimiterInit /\ [][LimiterNext]_vars

\* the requests recorded in the hour that ends at time t
RecordedInWindow(t) ==
    {k \in 1..Len(request_log) :
        request_log[k] > t - WindowSeconds /\ request_log[k] <= t}

CleanupStep(before) ==
    \/ pc = "limiter_ready" /\ pc' = "limiter_waited" /\ before = request_timestamps
    \/ pc = "limiter_waited" /\ pc' = "limiter_ready"
       /\ before = Append(request_timestamps, now')

BackoffTable == <<5, 10, 20, 40, 80>>

\* C23: handle_rate_limit_error(n) and _calculate_backoff_delay(n) return
\* the same value for every n >= 1, namely 5, 10, 20, 40, 80 for the attempts
\* 1..5, and the HTTP 429 branch of process() sleeps exactly that long.
C23_BackoffFunctionsAgree ==
    [][(pc = "processing" /\ pc' = "loop") =>
          /\ \A n \in 1..(2 * MaxAttempts) :
                handle_rate_limit_error(n) = _calculate_backoff_delay(n)
          /\ \A n \in 1..MaxAttempts :
                /\ handle_rate_limit_error(n) = BackoffTable[n]
                /\ _calculate_backoff_delay(n) = BackoffTable[n]
          /\ now' # now =>
                /\ now' - now = BackoffTable[tasks[idx].attempts + 1]
                /\ now' - now = handle_rate_limit_error(tasks[idx].attempts + 1)
                /\ now' - now = _calculate_backoff_delay(tasks[idx].attempts + 1)]_vars

\* the fifth attempt of a task was answered with HTTP 429: process() has
\* slept 80 seconds and scheduled the retry 80 seconds later
C23_Witness ==
    /\ pc = "loop"
    /\ idx = 2
    /\ tasks[1].attempts = 4
    /\ queue[tasks[1].id].status = "rate_limited"
    /\ queue[tasks[1].id].attempts = 5
    /\ now = StartTime + 80
    /\ queue[tasks[1].id].retry_after = now + 80

-----------------------------------------------------------------------------
(* StatisticsTracker on its own: any sequence of record_cycle_start and   *)
(* record_cycle_end calls on one tracker                                  *)

\* deque(maxlen=100)
DurationsMaxLen == 100
\* the number of ids the tracker under study issues
MaxCycles == 102
\* the number of cycles that may be open at once; a cycle is ended before
\* MaxActive further ids have been issued
MaxActive == 2
\* the first VariedCycles ended cycles and those after the deque is full may
\* fail and last 1 or 2 seconds, the others succeed in 1 second
VariedCycles == 2

\* an append that refuses the new element when the deque is full
deque_appendDroppingNewest(d, x) ==
    IF Len(d) >= DurationsMaxLen THEN d ELSE Append(d, x)

\* cycle_durations.append(duration) on a deque(maxlen=100)
deque_append(d, x) ==
    IF Len(d) >= DurationsMaxLen THEN Append(Tail(d), x) ELSE Append(d, x)

\* a record_cycle_start that returns an id without registering it
record_cycle_startWithoutEntry(t) ==
    [t EXCEPT !.issued_cycles = @ + 1, !.raised = "none"]

\* record_cycle_start: the tracker after the call; the id returned is its
\* issued_cycles
record_cycle_start(t) ==
    [t EXCEPT !.issued_cycles = @ + 1,
              !.active_cycles = @ \cup {t.issued_cycles + 1},
              !.raised = "none"]

\* a record_cycle_end that does not look the id up
record_cycle_endWithoutLookup(t, cycle_id, success, duration) ==
    [t EXCEPT !.active_cycles = @ \ {cycle_id},
              !.total_cycles = @ + 1,
              !.successful_cycles = IF success THEN @ + 1 ELSE @,
              !.cycle_durations = deque_append(@, duration),
              !.ended_durations = Append(@, duration),
              !.raised = "none"]

\* record_cycle_end
record_cycle_end(t, cycle_id, success, duration) ==
    IF cycle_id \notin t.active_cycles
    THEN [t EXCEPT !.raised = "ValueError"]
    ELSE [t EXCEPT !.active_cycles = @ \ {cycle_id},
                   !.total_cycles = @ + 1,
                   !.successful_cycles = IF success THEN @ + 1 ELSE @,
                   !.cycle_durations = deque_append(@, duration),
                   !.ended_durations = Append(@, duration),
                   !.raised = "none"]

\* the durations a cycle may be reported with once n cycles have ended
Durations(n) ==
    IF n < VariedCycles \/ n >= DurationsMaxLen THEN {1, 2} ELSE {1}

\* the success flags a cycle may be reported with once n cycles have ended
Successes(n) ==
    IF n < VariedCycles \/ n >= DurationsMaxLen THEN BOOLEAN ELSE {TRUE}

\* the ids a caller may pass: the open ones, the two issued last, the id 0
\* and the next id, which no record_cycle_start has returned
CycleIdsTried(t) ==
    t.active_cycles \cup
    {k \in 0..(t.issued_cycles + 1) : k = 0 \/ k >= t.issued_cycles - 1}

TrackerInit ==
    /\ stats_tracker = NewTracker
    /\ threads = NoThreads
    /\ validation = NoValidation
    /\ assets = {}
    /\ queue = <<>>
    /\ asset_prices = <<>>
    /\ now = StartTime
    /\ pc = "tracker"
    /\ NoProcess

TrackerStart ==
    /\ pc = "tracker"
    /\ stats_tracker.issued_cycles < MaxCycles
    /\ Cardinality(stats_tracker.active_cycles) < MaxActive
    /\ \A a \in stats_tracker.active_cycles :
          stats_tracker.issued_cycles + 1 - a < MaxActive
    /\ stats_tracker' = record_cycle_start(stats_tracker)
    /\ UNCHANGED <<validator, store, clock, limiter, runstate, threads>>

TrackerEnd(cycle_id, success, duration) ==
    /\ pc = "tracker"
    /\ stats_tracker' = record_cycle_end(stats_tracker, cycle_id, success, duration)
    /\ UNCHANGED <<validator, store, clock, limiter, runstate, threads>>

TrackerNext ==
    \/ TrackerStart
    \/ \E cycle_id \in CycleIdsTried(stats_tracker), success \in Successes(stats_tracker.total_cycles),
          duration \in Durations(stats_tracker.total_cycles) :
          TrackerEnd(cycle_id, success, duration)

TrackerSpec == TrackerInit /\ [][TrackerNext]_vars

\* C24: record_cycle_end with an id that record_cycle_start never returned, or
\* with an id already ended, raises an error and leaves total_cycles,
\* successful_cycles, the durations and the active cycles unchanged.
C24_UnknownCycleIsRefused ==
    [][\A cycle_id \in CycleIdsTried(stats_tracker), success \in Successes(stats_tracker.total_cycles),
          duration \in Durations(stats_tracker.total_cycles) :
          (/\ TrackerEnd(cycle_id, success, duration)
           /\ \/ cycle_id = 0
              \/ cycle_id > stats_tracker.issued_cycles
              \/ cycle_id \notin stats_tracker.active_cycles) =>
             /\ stats_tracker'.raised = "ValueError"
             /\ stats_tracker'.total_cycles = stats_tracker.total_cycles
             /\ stats_tracker'.successful_cycles = stats_tracker.successful_cycles
             /\ stats_tracker'.cycle_durations = stats_tracker.cycle_durations
             /\ stats_tracker'.active_cycles = stats_tracker.active_cycles]_vars

\* an end was refused while one cycle was open and another had ended
C24_Witness ==
    /\ stats_tracker.raised = "ValueError"
    /\ stats_tracker.total_cycles = 1
    /\ stats_tracker.successful_cycles = 1
    /\ stats_tracker.active_cycles = {2}

\* the last n elements of a sequence
LastN(q, n) == SubSeq(q, Len(q) - n + 1, Len(q))

Min(a, b) == IF a <= b THEN a ELSE b

\* C25: total_cycles is the number of accepted record_cycle_end calls,
\* successful_cycles counts exactly those with success = true and lies
\* between 0 and total_cycles, and the durations are those of the most recent
\* min(total_cycles, 100) ended cycles, in order.
C25_TrackerCounters ==
    /\ [](/\ stats_tracker.total_cycles = Len(stats_tracker.ended_durations)
          /\ stats_tracker.successful_cycles \in 0..stats_tracker.total_cycles
          /\ stats_tracker.cycle_durations =
                LastN(stats_tracker.ended_durations,
                      Min(stats_tracker.total_cycles, DurationsMaxLen)))
    /\ [][/\ \A cycle_id \in CycleIdsTried(stats_tracker), success \in Successes(stats_tracker.total_cycles),
                duration \in Durations(stats_tracker.total_cycles) :
                (/\ TrackerEnd(cycle_id, success, duration)
                 /\ cycle_id \in stats_tracker.active_cycles) =>
                   /\ stats_tracker'.total_cycles = stats_tracker.total_cycles + 1
                   /\ stats_tracker'.successful_cycles =
                         stats_tracker.successful_cycles + (IF success THEN 1 ELSE 0)
                   /\ stats_tracker'.ended_durations =
                         Append(stats_tracker.ended_durations, duration)
          /\ (stats_tracker'.issued_cycles # stats_tracker.issued_cycles) =>
                /\ stats_tracker'.total_cycles = stats_tracker.total_cycles
                /\ stats_tracker'.successful_cycles = stats_tracker.successful_cycles
                /\ stats_tracker'.cycle_durations = stats_tracker.cycle_durations]_vars

\* more cycles have ended than the deque holds: the first duration, 2, has
\* left it and the last one, 2 again, is its last element
C25_Witness ==
    /\ stats_tracker.total_cycles = DurationsMaxLen + 1
    /\ stats_tracker.successful_cycles = DurationsMaxLen - 1
    /\ stats_tracker.ended_durations[1] = 2
    /\ stats_tracker.cycle_durations[1] = 1
    /\ Len(stats_tracker.cycle_durations) = DurationsMaxLen
    /\ stats_tracker.cycle_durations[DurationsMaxLen] = 2

-----------------------------------------------------------------------------
(* The daemon: the notification loop of listen() on the main thread, the  *)
(* thread of _price_update_loop and that of _statistics_persistence_loop. *)
(* The threads share stats_tracker and the connection self.loader.conn;   *)
(* no statement of backfill_daemon.py takes a lock.                       *)

\* the number of tracked assets
MaxTracked == 2
\* the number of refresh cycles the daemon under study starts
MaxDaemonCycles == 3

\* LogStore.log: it returns whether or not the log sink is available
LogStore_log(sink_ok) == "returned"

\* a cycle end that records every cycle as failed
CycleEndAlwaysFailed(t, cycle_id, raises, persist_ok, sink_ok) ==
    [tracker |-> record_cycle_end(t, cycle_id, FALSE, 1), escaped |-> FALSE]

\* the body both _price_update_loop and _handle_manual_trigger wrap around
\* _update_tracked_prices, from its return or its exception on: the tracker
\* it leaves, and whether an exception leaves the except clause
CycleEnd(t, cycle_id, raises, persist_ok, sink_ok) ==
    LET failed(t0) ==
            LET r == record_cycle_end(t0, cycle_id, FALSE, 1)
            IN  [tracker |-> r,
                 escaped |-> \/ r.raised # "none"
                             \/ LogStore_log(sink_ok) = "raised"]
        r1 == record_cycle_end(t, cycle_id, TRUE, 1)
    IN  IF raises THEN failed(t)
        ELSE IF r1.raised # "none" THEN failed(r1)
        ELSE IF ~persist_ok /\ LogStore_log(sink_ok) = "raised" THEN failed(r1)
        ELSE [tracker |-> r1, escaped |-> FALSE]

DaemonInit ==
    /\ stats_tracker = NewTracker
    /\ threads = NoThreads
    /\ validation = NoValidation
    /\ assets = {}
    /\ queue = <<>>
    /\ asset_prices = <<>>
    /\ now = StartTime
    /\ pc = "daemon"
    /\ NoProcess

\* the channels listen() subscribes to
Channels == {"transaction_created", "price_update_trigger"}

\* BackfillDaemon(db_url) and listen() up to the poll loop
DaemonStart(started) ==
    /\ pc = "daemon"
    /\ threads.main_pc = "not_started"
    /\ threads' = IF started
                  THEN [threads EXCEPT !.running = TRUE, !.main_pc = "polling",
                                       !.conn_open = TRUE,
                                       !.listening = Channels,
                                       !.update_pc = "sleeping",
                                       !.stats_pc = "sleeping"]
                  ELSE [threads EXCEPT !.running = TRUE,
                                       !.main_pc = "startup_failed"]
    /\ UNCHANGED <<validator, store, clock, limiter, runstate, stats_tracker>>

\* a notification on price_update_trigger: _handle_manual_trigger up to the
\* call of _update_tracked_prices
ManualTrigger ==
    /\ threads.main_pc = "polling"
    /\ threads.conn_open
    /\ "price_update_trigger" \in threads.listening
    /\ stats_tracker.issued_cycles < MaxDaemonCycles
    /\ stats_tracker' = record_cycle_start(stats_tracker)
    /\ threads' = [threads EXCEPT !.main_pc = "updating", !.main_asset = 0,
                                  !.main_cycle = stats_tracker'.issued_cycles]
    /\ UNCHANGED <<validator, store, clock, limiter, runstate>>

\* _update_tracked_prices on the main thread turns to its next tracked asset
MainUpdateAsset ==
    /\ threads.main_pc = "updating"
    /\ threads.main_asset < MaxTracked
    /\ threads' = [threads EXCEPT !.main_asset = @ + 1]
    /\ UNCHANGED <<validator, store, clock, limiter, runstate, stats_tracker>>

\* _update_tracked_prices returns or raises on the main thread; an exception
\* that leaves the inner except clause is caught by the outer one
MainUpdateEnd(raises, persist_ok, sink_ok) ==
    /\ threads.main_pc = "updating"
    /\ ~raises => threads.main_asset = MaxTracked
    /\ LET r == CycleEnd(stats_tracker, threads.main_cycle, raises, persist_ok, sink_ok)
       IN  /\ stats_tracker' = r.tracker
           /\ threads' = [threads EXCEPT
                 !.main_pc = IF r.escaped /\ LogStore_log(sink_ok) = "raised"
                             THEN "dead" ELSE "polling",
                 !.main_asset = 0, !.main_cycle = 0]
    /\ UNCHANGED <<validator, store, clock, limiter, runstate>>

\* a notification on transaction_created for asset a: _handle_notification
\* calls _backfill_asset
MainBackfillBegin(a) ==
    /\ threads.main_pc = "polling"
    /\ threads.conn_open
    /\ "transaction_created" \in threads.listening
    /\ threads' = [threads EXCEPT !.main_pc = "backfill", !.main_asset = a]
    /\ UNCHANGED <<validator, store, clock, limiter, runstate, stats_tracker>>

\* _backfill_asset returns, having logged its failure if it had one
MainBackfillEnd(ok, sink_ok) ==
    /\ threads.main_pc = "backfill"
    /\ threads' = [threads EXCEPT
          !.main_pc = IF ~ok /\ LogStore_log(sink_ok) = "raised"
                      THEN "dead" ELSE "polling",
          !.main_asset = 0]
    /\ UNCHANGED <<validator, store, clock, limiter, runstate, stats_tracker>>

\* conn.poll() raises psycopg2.Error: the loop closes the connection
PollError ==
    /\ threads.main_pc = "polling"
    /\ threads' = [threads EXCEPT !.main_pc = "reconnecting"]
    /\ UNCHANGED <<validator, store, clock, limiter, runstate, stats_tracker>>

\* how far the reconnection gets before one of its statements raises: not
\* at all, up to the new connection, up to the first LISTEN, or to its end
ReconnectOutcomes ==
    {"connect_failed", "first_listen_failed", "second_listen_failed", "restored"}

\* the connection the name conn is bound to after the reconnection attempt:
\* the old, closed one when connect raised, else the new one
ReconnectedConn(outcome) ==
    [open |-> outcome # "connect_failed",
     listening |-> CASE outcome = "restored" -> Channels
                     [] outcome = "second_listen_failed" -> {"transaction_created"}
                     [] OTHER -> {}]

\* the reconnection: close, connect, autocommit, LISTEN twice; whether it
\* succeeds or one of its statements raises, the loop goes on
Reconnect(outcome, sink_ok) ==
    /\ threads.main_pc = "reconnecting"
    /\ threads' = [threads EXCEPT
          !.main_pc = IF LogStore_log(sink_ok) = "raised" THEN "dead" ELSE "polling",
          !.conn_open = ReconnectedConn(outcome).open,
          !.listening = ReconnectedConn(outcome).listening]
    /\ UNCHANGED <<validator, store, clock, limiter, runstate, stats_tracker>>

\* KeyboardInterrupt in the main thread: running = False, then the finally
\* block
Interrupt ==
    /\ threads.main_pc \in {"polling", "updating", "backfill", "reconnecting"}
    /\ threads' = [threads EXCEPT !.running = FALSE, !.main_pc = "stopped",
                                  !.conn_open = FALSE, !.listening = {}]
    /\ UNCHANGED <<validator, store, clock, limiter, runstate, stats_tracker>>

\* _price_update_loop wakes up after its sleep
UpdateWake ==
    /\ threads.update_pc = "sleeping"
    /\ IF ~threads.running
       THEN /\ threads' = [threads EXCEPT !.update_pc = "stopped"]
            /\ UNCHANGED stats_tracker
       ELSE /\ stats_tracker.issued_cycles < MaxDaemonCycles
            /\ stats_tracker' = record_cycle_start(stats_tracker)
            /\ threads' = [threads EXCEPT !.update_pc = "updating",
                              !.update_asset = 0,
                              !.update_cycle = stats_tracker'.issued_cycles]
    /\ UNCHANGED <<validator, store, clock, limiter, runstate>>

\* _update_tracked_prices on the worker thread turns to its next tracked asset
UpdateAsset ==
    /\ threads.update_pc = "updating"
    /\ threads.update_asset < MaxTracked
    /\ threads' = [threads EXCEPT !.update_asset = @ + 1]
    /\ UNCHANGED <<validator, store, clock, limiter, runstate, stats_tracker>>

\* _update_tracked_prices returns or raises on the worker thread; an exception
\* that leaves the except clause ends the thread
UpdateEnd(raises, persist_ok, sink_ok) ==
    /\ threads.update_pc = "updating"
    /\ ~raises => threads.update_asset = MaxTracked
    /\ LET r == CycleEnd(stats_tracker, threads.update_cycle, raises, persist_ok, sink_ok)
       IN  /\ stats_tracker' = r.tracker
           /\ threads' = [threads EXCEPT
                 !.update_pc = IF r.escaped THEN "dead" ELSE "sleeping",
                 !.update_asset = 0, !.update_cycle = 0]
    /\ UNCHANGED <<validator, store, clock, limiter, runstate>>

\* _statistics_persistence_loop wakes up after its sleep
StatsWake ==
    /\ threads.stats_pc = "sleeping"
    /\ threads' = [threads EXCEPT
          !.stats_pc = IF threads.running THEN "persisting" ELSE "stopped"]
    /\ UNCHANGED <<validator, store, clock, limiter, runstate, stats_tracker>>

\* persist_statistics returns or raises
StatsPersist(ok, sink_ok) ==
    /\ threads.stats_pc = "persisting"
    /\ threads' = [threads EXCEPT
          !.stats_pc = IF ~ok /\ LogStore_log(sink_ok) = "raised"
                       THEN "dead" ELSE "sleeping"]
    /\ UNCHANGED <<validator, store, clock, limiter, runstate, stats_tracker>>

DaemonNext ==
    \/ \E started \in BOOLEAN : DaemonStart(started)
    \/ ManualTrigger
    \/ MainUpdateAsset
    \/ \E raises, persist_ok, sink_ok \in BOOLEAN :
          MainUpdateEnd(raises, persist_ok, sink_ok)
    \/ \E a \in 1..MaxTracked : MainBackfillBegin(a)
    \/ \E ok, sink_ok \in BOOLEAN : MainBackfillEnd(ok, sink_ok)
    \/ PollError
    \/ \E outcome \in ReconnectOutcomes, sink_ok \in BOOLEAN :
          Reconnect(outcome, sink_ok)
    \/ Interrupt
    \/ UpdateWake
    \/ UpdateAsset
    \/ \E raises, persist_ok, sink_ok \in BOOLEAN :
          UpdateEnd(raises, persist_ok, sink_ok)
    \/ StatsWake
    \/ \E ok, sink_ok \in BOOLEAN : StatsPersist(ok, sink_ok)

DaemonSpec == DaemonInit /\ [][DaemonNext]_vars

\* C26: the periodic refresh cycle on the worker thread and a manually
\* triggered cycle or a new-asset backfill on the main thread are never
\* inside _update_tracked_prices at the same time, and never write the row of
\* the same tracked asset at the same time.
C26_SingleWriter ==
    /\ ~(threads.main_pc = "updating" /\ threads.update_pc = "updating")
    /\ ~(/\ threads.main_pc \in {"updating", "backfill"}
         /\ threads.update_pc = "updating"
         /\ threads.main_asset > 0
         /\ threads.main_asset = threads.update_asset)

-----------------------------------------------------------------------------
(* DataValidator.validate_price_record on arbitrary records *)

\* the largest price and volume of the records under study
MaxPrice == 2
\* a negative number that is none of the marks NULL, BadTimestamp, NoExit
Negative == -4

\* values of open, high and low: None, 0 or a positive price
OhlcValues == {NULL} \cup 0..MaxPrice
\* values of close and volume: None, a negative number, 0 or positive
SignedValues == {NULL, Negative} \cup 0..MaxPrice
\* timestamps: None, a string fromisoformat rejects, or a date
TimestampValues == {NULL, BadTimestamp, Today}

PriceRecords ==
    {PriceData(ts, o, h, l, c, v) :
        ts \in TimestampValues, o \in OhlcValues, h \in OhlcValues,
        l \in OhlcValues, c \in SignedValues, v \in SignedValues}

\* ValidationResult(valid=len(errors) == 0, errors=errors)
ValidationResult(errors) == [valid |-> errors = {}, errors |-> errors]

ValidatorInit ==
    /\ stats_tracker = NewTracker
    /\ threads = NoThreads
    /\ validation \in {[NoValidation EXCEPT !.price = p] : p \in PriceRecords}
    /\ assets = {}
    /\ queue = <<>>
    /\ asset_prices = <<>>
    /\ now = StartTime
    /\ pc = "validator"
    /\ NoProcess

\* validate_price_record(price)
Validate ==
    /\ pc = "validator"
    /\ ~validation.returned
    /\ LET r == ValidationResult(validate_price_record(validation.price))
       IN  validation' = [validation EXCEPT !.returned = TRUE, !.valid = r.valid,
                                            !.errors = r.errors]
    /\ UNCHANGED <<daemon, store, clock, limiter, runstate>>

ValidatorNext == Validate

ValidatorSpec == ValidatorInit /\ [][ValidatorNext]_vars

\* C28: a record without timestamp, close or volume is invalid with the
\* missing-field errors only; any other record is valid iff close > 0,
\* volume >= 0, the timestamp parses and, when open, high and low are all
\* present and non-zero, high >= low, high >= open, high >= close,
\* low <= open and low <= close; there is one error per violated check.
C28_ValidationRules ==
    validation.returned =>
       LET p == validation.price
           e == validation.errors
           ohlc == /\ p.open # NULL /\ p.high # NULL /\ p.low # NULL
                   /\ p.open # 0 /\ p.high # 0 /\ p.low # 0
       IN  IF p.timestamp = NULL \/ p.close = NULL \/ p.volume = NULL
           THEN /\ validation.valid = FALSE
                /\ e \subseteq {"missing_timestamp", "missing_close", "missing_volume"}
                /\ "missing_timestamp" \in e <=> p.timestamp = NULL
                /\ "missing_close" \in e <=> p.close = NULL
                /\ "missing_volume" \in e <=> p.volume = NULL
           ELSE /\ validation.valid <=>
                      /\ p.close > 0
                      /\ p.volume >= 0
                      /\ p.timestamp # BadTimestamp
                      /\ ohlc => /\ p.high >= p.low
                                 /\ p.high >= p.open
                                 /\ p.high >= p.close
                                 /\ p.low <= p.open
                                 /\ p.low <= p.close
                /\ "close_not_positive" \in e <=> ~(p.close > 0)
                /\ "volume_negative" \in e <=> ~(p.volume >= 0)
                /\ "bad_timestamp" \in e <=> p.timestamp = BadTimestamp
                /\ "high_low" \in e <=> (ohlc /\ ~(p.high >= p.low))
                /\ "high_open" \in e <=> (ohlc /\ ~(p.high >= p.open))
                /\ "high_close" \in e <=> (ohlc /\ ~(p.high >= p.close))
                /\ "low_open" \in e <=> (ohlc /\ ~(p.low <= p.open))
                /\ "low_close" \in e <=> (ohlc /\ ~(p.low <= p.close))
                /\ e \subseteq {"close_not_positive", "volume_negative",
                                "bad_timestamp", "high_low", "high_open",
                                "high_close", "low_open", "low_close"}

\* a record whose open is 0 and whose high is below its low has been found
\* valid: the OHLC relations are not checked for it
C28_Witness ==
    /\ validation.returned
    /\ validation.valid
    /\ validation.price.open = 0
    /\ validation.price.high # NULL
    /\ validation.price.low # NULL
    /\ validation.price.high < validation.price.low

-----------------------------------------------------------------------------
(* Cancellation and sequential processing *)

\* the rows of the queue with status in_progress
InProgressIds == {i \in 1..Len(queue) : queue[i].status = "in_progress"}

\* C29: a shutdown request never stops a task half-way: every task that
\* process() has taken up has reached completed, failed or rate_limited
\* before run() stops, so that no task handled by the run is in_progress
\* when the process has exited.
C29_NoTaskLeftInProgress ==
    pc = "exited" =>
       \A k \in 1..Len(handled) : queue[handled[k]].status # "in_progress"

\* C30: at every moment of a run at most one task of the queue is
\* in_progress, and a task is taken up by process() only after the task
\* dispatched before it has left that status.
C30_OneTaskInProgress ==
    /\ [](pc \in {"loop", "processing"} => Cardinality(InProgressIds) <= 1)
    /\ [][(pc = "loop" /\ pc' = "processing" /\ dispatched # <<>>) =>
             queue[dispatched[Len(dispatched)]].status # "in_progress"]_vars

-----------------------------------------------------------------------------
(* The limiter protocol inside process() *)

-----------------------------------------------------------------------------
(* Tasks left in_progress *)

\* row i is in_progress and no process() is at work on it
LeftInProgress(i) ==
    /\ queue[i].status = "in_progress"
    /\ ~(pc = "processing" /\ tasks[idx].id = i)

\* C37: get_pending_backfills never returns a task whose status is
\* in_progress; a task left in that status, by a process that is no longer at
\* work on it, is in the batch of no later run, is never dispatched again and
\* keeps its status and its attempts.
C37_InProgressIsNeverRedispatched ==
    [][\A i \in 1..Len(queue) :
          LeftInProgress(i) =>
             /\ \A k \in 1..Len(get_pending_backfills(queue, now)) :
                   get_pending_backfills(queue, now)[k].id # i
             /\ queue'[i].status = "in_progress"
             /\ queue'[i].attempts = queue[i].attempts
             /\ tasks' # tasks => \A k \in 1..Len(tasks') : tasks'[k].id # i
             /\ dispatched' # dispatched =>
                   (dispatched' = <<>> \/ dispatched'[Len(dispatched')] # i)]_vars

\* a later run works through its batch while the task an earlier run left
\* in_progress is not part of it
C37_Witness ==
    /\ pc = "processing"
    /\ \E i \in 1..Len(queue) :
          /\ LeftInProgress(i)
          /\ \A k \in 1..Len(tasks) : tasks[k].id # i

-----------------------------------------------------------------------------
(* Exit code under signal interleavings *)

\* C38: the process ends with exit code 130 exactly when shutdown_requested
\* is set as run()'s finally block executes, whether the run stopped early,
\* had handled every task, found no eligible task or raised an error (which
\* 130 overrides); otherwise the exit code is 0 when run() returned and 1
\* when it raised.
C38_ExitCodeUnderSignals ==
    [][(pc # "exited" /\ pc' = "exited") =>
          /\ exit_code' = 130 <=> shutdown_requested
          /\ ~shutdown_requested =>
                /\ raised' = "none" => exit_code' = 0
                /\ raised' # "none" => exit_code' = 1
          /\ shutdown_requested' = shutdown_requested]_vars

\* a signal arrived before a run that then raised a configuration error:
\* the process has ended with 130
C38_Witness ==
    /\ pc = "exited"
    /\ shutdown_requested
    /\ raised \in {"FileNotFoundError", "ValueError"}
    /\ exit_code = 130

-----------------------------------------------------------------------------
(* The daemon's backfill of a new asset *)

\* what process() stores of a batch: the new rows of its valid records
StoredByBatchPath(prices, symbol, batch) ==
    IF ValidPrices(batch) = <<>> THEN prices
    ELSE InsertPrices(prices, NewRecords(prices, symbol, ValidPrices(batch)))

\* C35: the daemon's backfill of one asset stores what the batch backfill of
\* one task stores: the fetched records are validated and only the valid ones
\* are written, so that no record that fails validate_price_record reaches
\* asset_prices on the daemon's backfill path.
C35_DaemonBackfillValidates ==
    [][\A symbol \in {SymA, SymB}, batch \in DaemonFetchBatches :
          BackfillAsset(symbol, batch) =>
             asset_prices' = StoredByBatchPath(asset_prices, symbol, batch)]_vars

-----------------------------------------------------------------------------
(* Reconnect and resume *)

\* the notification loop is about to poll an open connection
PollsOpenConnection ==
    /\ threads.main_pc = "polling"
    /\ threads.conn_open

\* C34: after a database error in the notification loop, whenever the loop
\* polls again it polls a connection that listens to both channels,
\* transaction_created and price_update_trigger; it never goes on polling a
\* connection that listens to one of them or to none.
C34_ResumesOnBothChannels ==
    PollsOpenConnection => threads.listening = Channels

-----------------------------------------------------------------------------
(* The StatisticsTracker shared by two threads. record_cycle_end is several *)
(* statements, and total_cycles += 1 is a read of the attribute followed by *)
(* a write of it: the steps below are the points between which the          *)
(* interpreter may switch threads. In this specification the variable       *)
(* threads holds, for each of the two threads, its position in the tracker's *)
(* methods, the cycle it has open, the success flag it ends it with and the *)
(* value it has read; ended and ended_successful count the calls of         *)
(* record_cycle_end that have been made.                                    *)

\* cycles started by the two threads together
MaxSharedCycles == 3

\* the worker thread of _price_update_loop and the main thread of
\* _handle_manual_trigger
TrackerThreads == {"update", "main"}

IdleThread == [pc |-> "idle", cycle |-> 0, success |-> FALSE, loaded |-> 0]

CountersInit ==
    /\ stats_tracker = NewTracker
    /\ threads = [update |-> IdleThread, main |-> IdleThread,
                  ended |-> 0, ended_successful |-> 0]
    /\ validation = NoValidation
    /\ assets = {}
    /\ queue = <<>>
    /\ asset_prices = <<>>
    /\ now = StartTime
    /\ pc = "counters"
    /\ NoProcess

\* cycle_id = self.statistics_tracker.record_cycle_start()
SharedCycleStart(th) ==
    /\ pc = "counters"
    /\ threads[th].pc = "idle"
    /\ stats_tracker.issued_cycles < MaxSharedCycles
    /\ stats_tracker' = record_cycle_start(stats_tracker)
    /\ threads' = [threads EXCEPT ![th].pc = "updating",
                                  ![th].cycle = stats_tracker'.issued_cycles]
    /\ UNCHANGED <<validator, store, clock, limiter, runstate>>

\* record_cycle_end(cycle_id, success, duration) is called: the lookup and
\* del self._active_cycles[cycle_id]
SharedCycleEndBegin(th, success) ==
    /\ threads[th].pc = "updating"
    /\ threads[th].cycle \in stats_tracker.active_cycles
    /\ stats_tracker' = [stats_tracker EXCEPT
                            !.active_cycles = @ \ {threads[th].cycle}]
    /\ threads' = [threads EXCEPT
          ![th].pc = "load_total", ![th].success = success,
          !.ended = @ + 1,
          !.ended_successful = IF success THEN @ + 1 ELSE @]
    /\ UNCHANGED <<validator, store, clock, limiter, runstate>>

\* self.total_cycles += 1: the attribute is read
LoadTotalCycles(th) ==
    /\ threads[th].pc = "load_total"
    /\ threads' = [threads EXCEPT ![th].pc = "store_total",
                                  ![th].loaded = stats_tracker.total_cycles]
    /\ UNCHANGED <<validator, store, clock, limiter, runstate, stats_tracker>>

\* self.total_cycles += 1: the sum is written
StoreTotalCycles(th) ==
    /\ threads[th].pc = "store_total"
    /\ stats_tracker' = [stats_tracker EXCEPT
                            !.total_cycles = threads[th].loaded + 1]
    /\ threads' = [threads EXCEPT
          ![th].pc = IF threads[th].success THEN "load_successful" ELSE "append",
          ![th].loaded = 0]
    /\ UNCHANGED <<validator, store, clock, limiter, runstate>>

\* self.successful_cycles += 1: the attribute is read
LoadSuccessfulCycles(th) ==
    /\ threads[th].pc = "load_successful"
    /\ threads' = [threads EXCEPT ![th].pc = "store_successful",
                                  ![th].loaded = stats_tracker.successful_cycles]
    /\ UNCHANGED <<validator, store, clock, limiter, runstate, stats_tracker>>

\* self.successful_cycles += 1: the sum is written
StoreSuccessfulCycles(th) ==
    /\ threads[th].pc = "store_successful"
    /\ stats_tracker' = [stats_tracker EXCEPT
                            !.successful_cycles = threads[th].loaded + 1]
    /\ threads' = [threads EXCEPT ![th].pc = "append", ![th].loaded = 0]
    /\ UNCHANGED <<validator, store, clock, limiter, runstate>>

\* self.cycle_durations.append(duration), and record_cycle_end returns
AppendDuration(th) ==
    /\ threads[th].pc = "append"
    /\ stats_tracker' = [stats_tracker EXCEPT
                            !.cycle_durations = deque_append(@, 1),
                            !.ended_durations = Append(@, 1)]
    /\ threads' = [threads EXCEPT ![th].pc = "idle", ![th].cycle = 0,
                                  ![th].success = FALSE]
    /\ UNCHANGED <<validator, store, clock, limiter, runstate>>

CountersNext ==
    \/ \E th \in TrackerThreads : SharedCycleStart(th)
    \/ \E th \in TrackerThreads, success \in BOOLEAN : SharedCycleEndBegin(th, success)
    \/ \E th \in TrackerThreads : LoadTotalCycles(th)
    \/ \E th \in TrackerThreads : StoreTotalCycles(th)
    \/ \E th \in TrackerThreads : LoadSuccessfulCycles(th)
    \/ \E th \in TrackerThreads : StoreSuccessfulCycles(th)
    \/ \E th \in TrackerThreads : AppendDuration(th)

CountersSpec == CountersInit /\ [][CountersNext]_vars

\* C39: whatever the interleaving of a periodic cycle on the worker thread
\* and manually triggered cycles on the main thread, once every cycle has
\* ended total_cycles is the number of cycles ended, successful_cycles the
\* number ended with success, and no cycle id is left in the active-cycle
\* map: no update of the shared tracker is lost.
C39_NoLostUpdate ==
    (\A th \in TrackerThreads : threads[th].pc = "idle") =>
        /\ stats_tracker.total_cycles = threads.ended
        /\ stats_tracker.successful_cycles = threads.ended_successful
        /\ stats_tracker.active_cycles = {}

-----------------------------------------------------------------------------
(* One refresh cycle in detail: _price_update_loop (or _handle_manual_trigger) *)
(* around _update_tracked_prices, asset by asset, and the portfolio          *)
(* recalculation it triggers. In this specification the variable threads     *)
(* holds the locals of the one thread that runs the cycle, asset_prices the  *)
(* price rows and stats_tracker the tracker.                                 *)

\* refresh cycles run
MaxRefreshCycles == 2

\* portfolios of the SELECT id FROM portfolios
MaxPortfolios == 2

\* what get_tracked_assets may return
TrackedLists == {<<>>, <<SymA>>, <<SymA, SymB>>}

\* how the body of the loop can go for one asset: all statements succeed;
\* fetch_current returns nothing; fetch_current raises; the INSERT INTO
\* asset_prices raises; the INSERT INTO price_update_log that follows the
\* committed price raises; update_tracked_asset_timestamp raises
AssetOutcomes ==
    {"updated", "no_price", "fetch_raised", "insert_raised", "log_raised",
     "timestamp_raised"}

NoRecalculation ==
    [triggered |-> FALSE, raised |-> FALSE, portfolios_processed |-> 0,
     portfolios_updated |-> 0, portfolios_failed |-> 0]

IdleCycle ==
    [pc |-> "idle", cycle |-> 0, tracked |-> <<>>, k |-> 0,
     successful_updates |-> 0, failed_updates |-> 0, attempted |-> <<>>,
     update_log |-> <<>>, conn_ok |-> TRUE, raised |-> FALSE,
     recalculation |-> NoRecalculation, portfolio |-> 0]

\* the body of the for loop of _update_tracked_prices for one asset, the
\* except clause included: the price rows and the price_update_log rows
\* after it, whether successful_updates or failed_updates was incremented,
\* and whether the transaction of loader.conn is still usable. A statement
\* that raised leaves the transaction aborted (nothing rolls it back), and
\* every later statement on the connection raises.
UpdateOneAsset(symbol, outcome, usable, prices) ==
    LET row == PriceRow(symbol, GoodRecord(Today))
        failure(p, log, c) ==
            [prices |-> p, log |-> log, success |-> FALSE, conn_ok |-> c]
    IN  CASE outcome = "fetch_raised" ->
                failure(prices, IF usable THEN <<[symbol |-> symbol, success |-> FALSE]>>
                                          ELSE <<>>, usable)
          [] ~usable -> failure(prices, <<>>, FALSE)
          [] outcome = "no_price" ->
                failure(prices, <<[symbol |-> symbol, success |-> FALSE]>>, TRUE)
          [] outcome = "insert_raised" -> failure(prices, <<>>, FALSE)
          [] outcome = "log_raised" ->
                failure(InsertOnConflictDoNothing(prices, row), <<>>, FALSE)
          [] outcome = "timestamp_raised" ->
                failure(InsertOnConflictDoNothing(prices, row),
                        <<[symbol |-> symbol, success |-> TRUE]>>, FALSE)
          [] OTHER ->
                [prices |-> InsertOnConflictDoNothing(prices, row),
                 log |-> <<[symbol |-> symbol, success |-> TRUE]>>,
                 success |-> TRUE, conn_ok |-> TRUE]

\* a trigger that does not look at successful_updates
ShouldRecalculateAlways(successful_updates) == TRUE

\* if successful_updates > 0: self._trigger_portfolio_update()
ShouldRecalculate(successful_updates) == successful_updates > 0

\* for portfolio_id in portfolio_ids: the portfolio taken up after this one
NextPortfolio(portfolio, ok) == portfolio + 1

RefreshInit ==
    /\ stats_tracker = NewTracker
    /\ threads = IdleCycle
    /\ validation = NoValidation
    /\ assets = {SymA, SymB}
    /\ queue = <<>>
    /\ asset_prices = <<>>
    /\ now = StartTime
    /\ pc = "refresh"
    /\ NoProcess

\* cycle_id = record_cycle_start(), then _update_tracked_prices is entered
RefreshStart ==
    /\ pc = "refresh"
    /\ threads.pc = "idle"
    /\ stats_tracker.issued_cycles < MaxRefreshCycles
    /\ stats_tracker' = record_cycle_start(stats_tracker)
    /\ threads' = [IdleCycle EXCEPT !.pc = "get_tracked",
                                    !.cycle = stats_tracker'.issued_cycles,
                                    !.conn_ok = threads.conn_ok]
    /\ UNCHANGED <<validator, store, clock, limiter, runstate>>

\* tracked = self.loader.get_tracked_assets(): it raises on a connection
\* whose transaction is aborted, and may raise on any; an empty list ends the
\* cycle at once
GetTracked(tracked, ok) ==
    /\ threads.pc = "get_tracked"
    /\ threads' =
          IF ~ok \/ ~threads.conn_ok
          THEN [threads EXCEPT !.pc = "ending", !.raised = TRUE, !.conn_ok = FALSE]
          ELSE IF tracked = <<>>
          THEN [threads EXCEPT !.pc = "ending"]
          ELSE [threads EXCEPT !.pc = "assets", !.tracked = tracked, !.k = 1]
    /\ UNCHANGED <<validator, store, clock, limiter, runstate, stats_tracker>>

\* one pass through the body of for symbol, asset_type, last_update in tracked
UpdateTrackedAsset(outcome) ==
    /\ threads.pc = "assets"
    /\ threads.k <= Len(threads.tracked)
    /\ LET symbol == threads.tracked[threads.k]
           r == UpdateOneAsset(symbol, outcome, threads.conn_ok, asset_prices)
       IN  /\ asset_prices' = r.prices
           /\ threads' = [threads EXCEPT
                 !.k = @ + 1,
                 !.attempted = Append(@, symbol),
                 !.successful_updates = IF r.success THEN @ + 1 ELSE @,
                 !.failed_updates = IF r.success THEN @ ELSE @ + 1,
                 !.update_log = @ \o r.log,
                 !.conn_ok = r.conn_ok]
    /\ UNCHANGED <<validator, assets, queue, clock, limiter, runstate, stats_tracker>>

\* the loop is over: the completion is logged and, with at least one
\* successful update, _trigger_portfolio_update calls
\* recalculate_all_portfolios, whose SELECT id FROM portfolios may raise; the
\* trigger swallows what the pass raises
FinishAssets(select_ok) ==
    /\ threads.pc = "assets"
    /\ threads.k > Len(threads.tracked)
    /\ threads' =
          IF ~ShouldRecalculate(threads.successful_updates)
          THEN [threads EXCEPT !.pc = "ending"]
          ELSE IF ~select_ok
          THEN [threads EXCEPT !.pc = "ending",
                               !.recalculation.triggered = TRUE,
                               !.recalculation.raised = TRUE]
          ELSE [threads EXCEPT !.pc = "portfolios", !.portfolio = 1,
                               !.recalculation.triggered = TRUE]
    /\ UNCHANGED <<validator, store, clock, limiter, runstate, stats_tracker>>

\* the body of for portfolio_id in portfolio_ids, its except clause included
RecalculatePortfolio(ok) ==
    /\ threads.pc = "portfolios"
    /\ threads.portfolio <= MaxPortfolios
    /\ threads' = [threads EXCEPT
          !.portfolio = NextPortfolio(@, ok),
          !.recalculation.portfolios_processed = @ + 1,
          !.recalculation.portfolios_updated = IF ok THEN @ + 1 ELSE @,
          !.recalculation.portfolios_failed = IF ok THEN @ ELSE @ + 1]
    /\ UNCHANGED <<validator, store, clock, limiter, runstate, stats_tracker>>

\* recalculate_all_portfolios returns its result, _trigger_portfolio_update
\* and _update_tracked_prices return
RecalculationReturns ==
    /\ threads.pc = "portfolios"
    /\ threads.portfolio > MaxPortfolios
    /\ threads' = [threads EXCEPT !.pc = "ending"]
    /\ UNCHANGED <<validator, store, clock, limiter, runstate, stats_tracker>>

\* _update_tracked_prices has returned or raised: record_cycle_end and the
\* persisting of the statistics, in the try block or in the except clause
RefreshEnd(persist_ok, sink_ok) ==
    /\ threads.pc = "ending"
    /\ LET r == CycleEnd(stats_tracker, threads.cycle, threads.raised,
                         persist_ok, sink_ok)
       IN  /\ stats_tracker' = r.tracker
           /\ threads' = [threads EXCEPT
                 !.pc = IF r.escaped THEN "dead" ELSE "idle"]
    /\ UNCHANGED <<validator, store, clock, limiter, runstate>>

RefreshNext ==
    \/ RefreshStart
    \/ \E tracked \in TrackedLists, ok \in BOOLEAN : GetTracked(tracked, ok)
    \/ \E outcome \in AssetOutcomes : UpdateTrackedAsset(outcome)
    \/ \E select_ok \in BOOLEAN : FinishAssets(select_ok)
    \/ \E ok \in BOOLEAN : RecalculatePortfolio(ok)
    \/ RecalculationReturns
    \/ \E persist_ok, sink_ok \in BOOLEAN : RefreshEnd(persist_ok, sink_ok)

RefreshSpec == RefreshInit /\ [][RefreshNext]_vars

\* C32: in a refresh cycle every tracked asset is attempted exactly once, in
\* turn; an asset for which no price came or an exception was raised gets no
\* price row and is counted in failed_updates, and the assets after it are
\* still attempted; when the loop is left, successful_updates +
\* failed_updates is the number of tracked assets.
C32_EveryTrackedAssetAttemptedOnce ==
    [][(pc = "refresh" /\ threads.pc = "assets") =>
          /\ threads'.pc = "assets" =>
                /\ threads'.attempted =
                       Append(threads.attempted, threads.tracked[threads.k])
                /\ threads'.k = threads.k + 1
                /\ threads'.successful_updates + threads'.failed_updates
                       = threads.successful_updates + threads.failed_updates + 1
                /\ threads'.successful_updates = threads.successful_updates =>
                       /\ asset_prices' = asset_prices
                       /\ threads'.failed_updates = threads.failed_updates + 1
          /\ threads'.pc # "assets" =>
                /\ threads.attempted = threads.tracked
                /\ threads.successful_updates + threads.failed_updates
                       = Len(threads.tracked)]_vars

C40_CycleEndedOnceWithOutcome ==
    [][pc = "refresh" =>
          /\ threads.pc = "ending" =>
                /\ threads.cycle \in stats_tracker.active_cycles
                /\ threads.cycle \notin stats_tracker'.active_cycles
                /\ stats_tracker'.total_cycles = stats_tracker.total_cycles + 1
                /\ stats_tracker'.successful_cycles =
                       stats_tracker.successful_cycles
                       + (IF threads.raised THEN 0 ELSE 1)
                /\ threads'.pc = "idle"
          /\ threads.pc # "ending" =>
                /\ stats_tracker'.total_cycles = stats_tracker.total_cycles
                /\ stats_tracker'.successful_cycles = stats_tracker.successful_cycles
                /\ threads.pc # "idle" =>
                       threads.cycle \in stats_tracker'.active_cycles]_vars

\* the first cycle found two tracked assets, both failed, and it has ended
\* as a successful cycle
C40_Witness ==
    /\ pc = "refresh"
    /\ threads.pc = "idle"
    /\ Len(threads.tracked) = 2
    /\ threads.successful_updates = 0
    /\ threads.failed_updates = 2
    /\ ~threads.recalculation.triggered
    /\ stats_tracker.total_cycles = 1
    /\ stats_tracker.successful_cycles = 1
    /\ stats_tracker.active_cycles = {}

-----------------------------------------------------------------------------
(* Repeated runs: batch runs with force = False follow one another, none is *)
(* interrupted, the store accepts every write, time passes between the runs, *)
(* and the daemon's refresh writes prices of known assets in between.        *)

\* the configuration file the repeated runs are pointed at
RepeatedConfig == [kind |-> "ok", symbols |-> <<SymA>>]

\* a step of a batch run that is not interrupted and whose writes are stored
RunStep ==
    \/ CliStart
    \/ \E d \in DaysOptions : RunSetup(RepeatedConfig, FALSE, d, "ok")
    \/ MarkPermanent(TRUE)
    \/ ProcessBegin(TRUE)
    \/ \E outcome \in {fetch_historical(fetcher, response) :
                            fetcher \in Fetchers, response \in ProviderResponses} :
          \E batch \in (IF pc = "processing" THEN FetchBatches(tasks[idx]) ELSE {}) :
              ProcessFinish(outcome, batch, "ok", TRUE, TRUE)
    \/ LoopDone
    \/ Reap

RepeatedRunsNext ==
    \/ RunStep
    \/ \E i \in 1..Len(queue) : Tick(i)
    \/ DaemonRefresh(SymA, Today)

\* the rows the queue can hold: one per symbol of the configuration
MaxQueueLen == 1

\* runs are repeated and each of their statements returns; between two runs
\* the time of every recorded retry_after is reached
RepeatedRunsSpec ==
    /\ Init
    /\ [][RepeatedRunsNext]_vars
    /\ WF_vars(RunStep)
    /\ SF_vars(\E i \in 1..MaxQueueLen : Tick(i))

\* completed, or failed with the attempts used up
Terminal(row) ==
    \/ row.status = "completed"
    \/ row.status = "failed" /\ row.attempts >= MaxAttempts

\* asset_prices holds a row of the task's asset in the task's window
HasStoredPrices(row) ==
    PriceCount(asset_prices, row.asset_id, row.start_date, row.end_date) > 0

\* C36 as stated: with repeated, uninterrupted runs (force = False) and a
\* store that accepts writes, every seeded task eventually reaches a terminal
\* state, completed or failed with attempts >= 5.
C36_AsStated ==
    \A i \in 1..MaxQueueLen :
        (i <= Len(queue)) ~> (i <= Len(queue) /\ Terminal(queue[i]))

\* C36: with repeated, uninterrupted runs (force = False) and a store that
\* accepts writes, every seeded task eventually reaches a terminal state,
\* completed or failed with attempts >= 5, or asset_prices holds a row of its
\* asset in its window, for which every run skips it.
C36_TerminalOrSkipped ==
    \A i \in 1..MaxQueueLen :
        (i <= Len(queue)) ~>
            (i <= Len(queue) /\ (Terminal(queue[i]) \/ HasStoredPrices(queue[i])))

\* after five runs in which its fetch failed a task has used up its attempts,
\* and no price of its asset is stored
C36_Witness ==
    /\ pc = "idle"
    /\ Len(queue) >= 1
    /\ queue[1].status = "failed"
    /\ queue[1].attempts = MaxAttempts
    /\ ~HasStoredPrices(queue[1])

====
